---- MODULE Spec2Model ----
(***************************************************************************)
(* Transport and request-lifecycle core of the LSP client                  *)
(* (src/api/lsp_client.py) together with the session code that starts and  *)
(* stops the server (src/internal/session.py,                              *)
(* src/internal/clangd_implementation.py).                                 *)
(*                                                                         *)
(* Application threads call Client.send_request, Session.run_server and    *)
(* Client.terminate_server.  Every Client.listen() starts one read-loop    *)
(* thread (Client._listen).  A block under RequestManager.lock is one      *)
(* atomic step that needs the lock free; add_request is split in two       *)
(* steps that hold the lock, so that the lock itself is part of the model. *)
(*                                                                         *)
(* Spec is the whole client; SpecSend and SpecRace are request and         *)
(* response traffic on a running server; SpecLoops is the server started   *)
(* and stopped with inbound frames only; SpecWrite is StandardIO.write     *)
(* called from two threads, byte by byte; SpecRead is StandardIO.read on a *)
(* stream of frames, line by line and chunk by chunk.  SpecRestart,        *)
(* SpecReset and SpecStart are send_request in one thread while another    *)
(* thread terminates and runs the server; SpecStartFair adds the fairness  *)
(* of a thread that waits in write(); SpecGate is write() alone against    *)
(* terminate() and run(); SpecLoopsFair is SpecLoops with every thread     *)
(* scheduled; SpecSpawn is run_server and terminate() on two threads, with *)
(* terminate() taken statement by statement.  SpecInitialize and          *)
(* SpecSession are the ClangdClient of src/internal/clangd.py on top of    *)
(* this client: initialize from two threads, and document calls in one     *)
(* thread while another starts, initializes and terminates the server.     *)
(* SpecFrame applies wrap_rpc and                                          *)
(* get_content_length, SpecCodec the RPCMessage constructors, dumps and    *)
(* load, to bounded sets of arguments.                                     *)
(***************************************************************************)
EXTENDS Integers, Sequences, FiniteSets, TLC

\* ---------------------------------------------------------------- bounds
\* Spec: the whole client, with the server started and stopped
MaxRequests == 2
MaxSpawn == 2
MaxFrames == 1
\* SpecSend: request and response traffic with one running server
MaxSendRequests == 3
MaxSendFrames == 2
\* SpecRace: send_request called from two threads at once
MaxRaceRequests == 3
MaxRaceFrames == 1
\* SpecLoops: the server started and stopped, and inbound frames only
MaxLoopFrames == 2
\* SpecWrite: write() called from two threads at once
MaxWrites == 3
MaxContent == 2
\* SpecRestart: send_request by one thread while another thread terminates
\* and runs the server again
MaxRestartRequests == 2
MaxRestartFrames == 1
\* SpecStart, SpecStartFair: send_request by one thread before and while
\* another thread runs the server
MaxStartRequests == 2
\* SpecSpawn: children spawned while two threads run and terminate the server
MaxChildren == 3
\* SpecInitialize: initialize calls and responses on a running server
MaxInitializeCalls == 3
MaxInitializeFrames == 2
\* SpecSession: calls of the ClangdClient and responses while the server is
\* started, initialized and terminated
MaxSessionCalls == 3
MaxSessionFrames == 1
\* SpecGate: notifications written while the server is stopped and started
MaxGateWrites == 2
\* SpecReset: send_request by two threads, one of which also terminates the
\* server
MaxResetRequests == 3
\* SpecFrame: wrap_rpc and get_content_length on bodies of 0..MaxLen bytes
MaxLen == 10
\* SpecRead: read() on a stream of frames that closes somewhere
MaxStreamFrames == 2
MaxBody == 2

\* ------------------------------------------------------------- constants
None == -1
NoThread == "nobody"
NoMethod == ""
Methods == {"hover", "completion"}
CancelMethod == "$/cancelRequest"
Callers == {"t1", "t2"}
Main == {"t1"}
Listeners == 1..MaxSpawn
Ids == 1..MaxSendRequests

VARIABLES
    process,          \* StandardIO._process: None or the pid of the Popen object
    live,             \* pids of children that have not exited
    spawned,          \* number of processes spawned so far
    run_event,        \* StandardIO._run_event
    request_map,      \* RequestManager.request_map: id -> method
    canceled_request, \* RequestManager.canceled_request
    request_count,    \* RequestManager.request_count
    lock,             \* RequestManager.lock: None or the thread holding it
    run_server_lock,  \* Session.run_server_lock: None or the thread holding it
    pc,               \* application threads: position in the current call
    arg,              \* application threads: method argument of send_request
    prev,             \* send_request: prev_request
    req_id,           \* send_request: req_id / add_request: the incremented count
    stale,            \* send_request works with a RequestManager that was replaced
    lpc,              \* read-loop threads: position
    lproc,            \* read-loop threads: the child whose stdout read() reads
    lresp,            \* read-loop threads: response to send for a server request
    logged,           \* what was logged: a caught handler exception, an invalid message
    frames_read,      \* number of frames taken from the server's stdout
    sends,            \* number of send_request calls made so far
    written,          \* frames written through self.stdin since the last Popen()
    handler_calls,    \* calls of handler.handle, in order
    born,             \* id -> pid the transport held when add_request recorded it
    limits,           \* how many requests, frames and processes a run explores
    pipe,             \* bytes that arrived on the child's stdin, in order
    wbuf,             \* write(): the frame a thread is passing to self.stdin.write
    writes,           \* number of write() calls made so far
    stdout,           \* the bytes the child puts on its stdout, and where it closes
    rd,               \* read(): the locals of the call in progress
    reads,            \* what the read() calls so far returned or raised
    call,             \* a call of a codec or framing function: arguments, results
    inittialize_status, \* Session.inittialize_status of the ClangdClient
    initialize_event  \* ClangdClient.initialize_event

vars == <<process, live, spawned, run_event, request_map, canceled_request,
          request_count, lock, run_server_lock, pc, arg, prev, req_id, stale,
          lpc, lproc, lresp, logged, frames_read, sends, written, handler_calls, born, limits,
          pipe, wbuf, writes, stdout, rd, reads, call, inittialize_status,
          initialize_event>>

transportVars == <<process, live, spawned, run_event>>
trackerVars == <<request_map, canceled_request, request_count, lock, born>>
sessionVars == <<inittialize_status, initialize_event>>
ioVars == <<pipe, wbuf, writes, stdout, rd, reads, call>>
streamVars == <<ioVars, sessionVars>>
callerVars == <<pc, arg, prev, req_id, stale, sends, limits, streamVars>>
listenerVars == <<lpc, lproc, lresp, logged, frames_read, handler_calls>>

EmptyMap == [i \in {} |-> NoMethod]

\* ----------------------------------------------------- RequestManager
\* the keys of request_map
Pending == DOMAIN request_map

\* pending entries not marked cancelled
LiveIds == Pending \ canceled_request

Min(S) == CHOOSE x \in S : \A y \in S : x <= y

\* RequestManager.get_request_id: request_map is iterated in insertion order,
\* which is the order of the ids; the first entry of the method wins
get_request_id(method) ==
    IF \E i \in Pending : request_map[i] = method
    THEN Min({i \in Pending : request_map[i] = method})
    ELSE None

\* RequestManager.get_request: what the call raises, or the method it returns
get_request(request_id) ==
    IF request_id \in canceled_request
    THEN IF request_id \in Pending
         THEN [raises |-> "Canceled", method |-> NoMethod]
         ELSE [raises |-> "KeyError", method |-> NoMethod]
    ELSE IF request_id \in Pending
         THEN [raises |-> "", method |-> request_map[request_id]]
         ELSE [raises |-> "KeyError", method |-> NoMethod]

\* a get_request that reads the entry with request_map[request_id], not pop()
get_request_map_kept(request_id) ==
    IF request_id \in canceled_request
    THEN [i \in Pending \ {request_id} |-> request_map[i]]
    ELSE request_map

\* request_map after get_request(request_id): the entry is deleted or popped
get_request_map(request_id) ==
    [i \in Pending \ {request_id} |-> request_map[i]]

\* a get_request that forgets `self.canceled_request.remove(request_id)`
get_request_canceled_kept(request_id) == canceled_request

\* canceled_request after get_request(request_id)
get_request_canceled(request_id) == canceled_request \ {request_id}

\* a cancel_requests that marks every pending request
cancel_requests_all(ids) == canceled_request \cup ids \cup Pending

\* a cancel_requests that marks nothing
cancel_requests_noop(ids) == canceled_request

\* canceled_request after cancel_requests(*ids)
cancel_requests(ids) == canceled_request \cup ids

\* request_map after add_request stored method under the new count
add_request_map(count, method) ==
    [i \in Pending \cup {count} |-> IF i = count THEN method ELSE request_map[i]]

\* a RequestManager whose methods do not take the lock
LockIgnored == TRUE

\* `with self.lock`: the lock can be taken
LockFree == lock = NoThread

\* ---------------------------------------------------------- transport
\* an is_running that looks at the handle alone
is_running_handle_only == process # None

\* StandardIO.is_running: bool(self._process) and self._process.poll() is None
is_running == process # None /\ process \in live

\* read() and write() without `self._run_event.wait()`
GateIgnored == TRUE

\* `self._run_event.wait()` returns
GateOpen == run_event

\* what self.stdin.write does: process.stdin of a live child, of an exited
\* child (broken pipe), or the BytesIO() placeholder
WriteOutcome ==
    IF process = None THEN "placeholder"
    ELSE IF process \in live THEN "pipe" ELSE "BrokenPipeError"

\* ------------------------------------------------------------- framing
ContentLength(n) == [name |-> "Content-Length", value |-> n]
OtherHeader == [name |-> "Content-Type", value |-> None]

\* the blank line "\r\n" that ends the header block
Blank == [name |-> "", value |-> None]

\* one byte of a body
Byte(v) == [name |-> "byte", value |-> v]

\* wrap_rpc: the Content-Length line, the blank line, then the content
wrap_rpc(content) == <<ContentLength(Len(content)), Blank>> \o content

\* get_content_length: the first line matching `Content-Length: (\d+)`
RECURSIVE get_content_length(_)
get_content_length(header) ==
    IF header = <<>> THEN None
    ELSE IF Head(header).name = "Content-Length" /\ Head(header).value # None
         THEN Head(header).value
         ELSE get_content_length(Tail(header))

\* messages the server sends: id and method are each present or not
ServerMethods == {"window/logMessage"}
Messages ==
    [json : {TRUE}, jsonrpc : {"2.0"},
     id : {None} \cup Ids, method : {NoMethod} \cup ServerMethods]
BadJson == [json |-> FALSE, jsonrpc |-> "", id |-> None, method |-> NoMethod]
NotRpc == [json |-> TRUE, jsonrpc |-> "1.0", id |-> 1, method |-> NoMethod]
Payloads == Messages \cup {BadJson, NotRpc}

\* a frame on the child's stdout: header lines up to the blank line, the
\* number of body bytes the stream yields before it closes, and the body
Frames ==
    {[header |-> <<>>, avail |-> 0, payload |-> BadJson],
     [header |-> <<OtherHeader>>, avail |-> 2, payload |-> BadJson],
     [header |-> <<ContentLength(None)>>, avail |-> 2, payload |-> BadJson],
     [header |-> <<OtherHeader, ContentLength(2)>>, avail |-> 1, payload |-> BadJson],
     [header |-> <<ContentLength(0)>>, avail |-> 0, payload |-> BadJson]}
    \cup {[header |-> <<ContentLength(2)>>, avail |-> 2, payload |-> p] : p \in Payloads}

\* StandardIO.read on one frame: the exception raised, or "" with the content
read(frame) ==
    IF Len(frame.header) = 0 THEN "EOFError"
    ELSE IF get_content_length(frame.header) = None THEN "HeaderError"
    ELSE IF frame.avail < get_content_length(frame.header) THEN "EOFError"
    ELSE ""

\* RPCMessage.load on the content read() returned
load(frame) ==
    IF get_content_length(frame.header) = 0 \/ ~frame.payload.json
    THEN "JSONDecodeError"
    ELSE IF frame.payload.jsonrpc # "2.0" THEN "ValueError"
    ELSE ""

\* a handle_message that looks at the id first
handle_message_id_first(message) ==
    IF message.id # None THEN "response"
    ELSE IF message.method # NoMethod THEN "notification" ELSE "invalid"

\* Client.handle_message: the path a loaded message takes
handle_message(message) ==
    IF message.method # NoMethod
    THEN IF message.id = None THEN "notification" ELSE "request"
    ELSE IF message.id # None THEN "response" ELSE "invalid"

\* what listen_func raises for a frame before any handler runs
listen_func(frame) ==
    IF read(frame) # "" THEN read(frame) ELSE load(frame)

\* ------------------------------------------------------------ state
EmptyBorn == [i \in {} |-> None]

\* handle_request's result/error for send_response; none while no request is handled
NoResponse == [id |-> None, error |-> FALSE]

\* no write() in progress
NoWrite == [frame |-> None, size |-> 0, done |-> 0]

\* no read() in progress
NoRead ==
    [phase |-> "idle", pos |-> 1, n_header |-> 0, temp_header |-> <<>>,
     content_length |-> None, temp_content |-> <<>>, calls |-> 0]

\* a child that writes nothing to its stdout
NoStream == [bytes |-> <<>>, frames |-> <<>>]

\* no write() was called
WritesIdle ==
    /\ pipe = <<>>
    /\ wbuf = [t \in Callers |-> NoWrite]
    /\ writes = 0

\* no read() was called
ReadsIdle ==
    /\ rd = NoRead
    /\ reads = <<>>

\* no codec or framing function is called on its own
NoCall == [fn |-> ""]

CallsIdle == call = NoCall

\* nothing on the streams
StreamsIdle ==
    /\ CallsIdle
    /\ WritesIdle
    /\ ReadsIdle
    /\ stdout = NoStream

\* the session of a new ClangdClient: not initialized, the event unset
SessionNew ==
    /\ inittialize_status = "NotInitialized"
    /\ initialize_event = FALSE

\* the state after Client(transport, handler) on a new StandardIO
Constructed ==
    /\ StreamsIdle
    /\ SessionNew
    /\ process = None
    /\ live = {}
    /\ spawned = 0
    /\ run_event = FALSE
    /\ request_map = EmptyMap
    /\ canceled_request = {}
    /\ request_count = 0
    /\ lock = NoThread
    /\ run_server_lock = NoThread
    /\ pc = [t \in Callers |-> "idle"]
    /\ arg = [t \in Callers |-> NoMethod]
    /\ prev = [t \in Callers |-> None]
    /\ req_id = [t \in Callers |-> None]
    /\ stale = [t \in Callers |-> FALSE]
    /\ lpc = [l \in Listeners |-> "unborn"]
    /\ lproc = [l \in Listeners |-> None]
    /\ lresp = [l \in Listeners |-> NoResponse]
    /\ logged = {}
    /\ frames_read = 0
    /\ sends = 0
    /\ written = <<>>
    /\ handler_calls = <<>>
    /\ born = EmptyBorn

Init ==
    /\ Constructed
    /\ limits = [requests |-> MaxRequests, frames |-> MaxFrames, spawn |-> MaxSpawn,
                 writes |-> 0]

\* a frame handed to StandardIO.write: wrap_rpc(content) goes to self.stdin
Frame(kind, id, method, member) ==
    [to |-> process, kind |-> kind, id |-> id, method |-> method, member |-> member]

\* a send_message that writes its frame twice
send_message_twice(message) == Append(Append(written, message), message)

\* Client.send_message: the frames on stdin after transport.write(content)
send_message(message) == Append(written, message)

\* the caller returns (or its call raised): its locals are gone
Return(t) ==
    /\ pc' = [pc EXCEPT ![t] = "idle"]
    /\ arg' = [arg EXCEPT ![t] = NoMethod]
    /\ prev' = [prev EXCEPT ![t] = None]
    /\ req_id' = [req_id EXCEPT ![t] = None]
    /\ stale' = [stale EXCEPT ![t] = FALSE]

\* Client._reset_state: a new RequestManager replaces the old one; a thread
\* inside add_request keeps working on the old one
ResetState ==
    /\ request_map' = EmptyMap
    /\ canceled_request' = {}
    /\ request_count' = 0
    /\ lock' = NoThread
    /\ born' = EmptyBorn

StaleAfterReset == [t \in Callers |-> stale[t] \/ pc[t] \in {"sr_add2", "sr_write"}]

\* StandardIO.terminate as a function of the transport's state
terminate(s) ==
    [process |-> None, run_event |-> FALSE,
     live |-> IF s.process # None THEN s.live \ {s.process} ELSE s.live]

\* a terminate() without `self._process = None`
KillKeepsHandle ==
    /\ live' = live \ {process}
    /\ process' = process

\* StandardIO.terminate, second half: kill, wait, release the handle
Kill ==
    IF process # None
    THEN /\ live' = live \ {process}
         /\ process' = None
    ELSE UNCHANGED <<limits, streamVars, live, process>>

\* -------------------------------------------------- Client.send_request
\* prev_request = self.request_manager.get_request_id(method)
SendRequest(t, method) ==
    /\ pc[t] = "idle"
    /\ sends < limits.requests
    /\ LockFree
    /\ sends' = sends + 1
    /\ arg' = [arg EXCEPT ![t] = method]
    /\ prev' = [prev EXCEPT ![t] = get_request_id(method)]
    /\ pc' = [pc EXCEPT ![t] =
                IF get_request_id(method) # None THEN "sr_cancel" ELSE "sr_add"]
    /\ UNCHANGED <<limits, streamVars, transportVars, trackerVars, listenerVars, req_id, stale,
                   run_server_lock, written>>

\* self.request_manager.cancel_requests(prev_request)
SendRequestCancel(t) ==
    /\ pc[t] = "sr_cancel"
    /\ LockFree
    /\ canceled_request' = cancel_requests({prev[t]})
    /\ pc' = [pc EXCEPT ![t] = "sr_notify"]
    /\ UNCHANGED <<limits, streamVars, transportVars, listenerVars, request_map, request_count, lock,
                   born, arg, prev, req_id, stale, sends, run_server_lock, written>>

\* self.send_notification("$/cancelRequest", {"id": prev_request})
SendRequestNotify(t) ==
    /\ pc[t] = "sr_notify"
    /\ GateOpen
    /\ IF WriteOutcome = "BrokenPipeError"
       THEN Return(t) /\ UNCHANGED written
       ELSE /\ written' = send_message(Frame("notification", prev[t], CancelMethod, "params"))
            /\ pc' = [pc EXCEPT ![t] = "sr_add"]
            /\ UNCHANGED <<limits, streamVars, arg, prev, req_id, stale>>
    /\ UNCHANGED <<limits, streamVars, transportVars, trackerVars, listenerVars, sends, run_server_lock>>

\* add_request: with self.lock, read request_count for the increment
AddRequestEnter(t) ==
    /\ pc[t] = "sr_add"
    /\ LockFree
    /\ lock' = t
    /\ req_id' = [req_id EXCEPT ![t] = request_count + 1]
    /\ pc' = [pc EXCEPT ![t] = "sr_add2"]
    /\ UNCHANGED <<limits, streamVars, transportVars, listenerVars, request_map, canceled_request,
                   request_count, born, arg, prev, stale, sends, run_server_lock,
                   written>>

\* add_request: store the count and the method, release the lock
AddRequestStore(t) ==
    /\ pc[t] = "sr_add2"
    /\ IF stale[t]
       THEN UNCHANGED <<limits, streamVars, request_map, request_count, lock, born>>
       ELSE /\ request_count' = req_id[t]
            /\ request_map' = add_request_map(req_id[t], arg[t])
            /\ born' = [i \in Pending \cup {req_id[t]} |->
                          IF i = req_id[t] THEN process ELSE born[i]]
            /\ lock' = NoThread
    /\ pc' = [pc EXCEPT ![t] = "sr_count"]
    /\ stale' = [stale EXCEPT ![t] = FALSE]
    /\ UNCHANGED <<limits, streamVars, transportVars, listenerVars, canceled_request, arg, prev, req_id,
                   sends, run_server_lock, written>>

\* req_id = self.request_manager.request_count
SendRequestCount(t) ==
    /\ pc[t] = "sr_count"
    /\ req_id' = [req_id EXCEPT ![t] = request_count]
    /\ pc' = [pc EXCEPT ![t] = "sr_write"]
    /\ UNCHANGED <<limits, streamVars, transportVars, trackerVars, listenerVars, arg, prev, stale, sends,
                   run_server_lock, written>>

\* self.send_message(RPCMessage.request(req_id, method, params))
SendRequestWrite(t) ==
    /\ pc[t] = "sr_write"
    /\ GateOpen
    /\ written' = IF WriteOutcome = "BrokenPipeError" THEN written
                  ELSE send_message(Frame("request", req_id[t], arg[t], "params"))
    /\ Return(t)
    /\ UNCHANGED <<limits, streamVars, transportVars, trackerVars, listenerVars, sends, run_server_lock>>

\* --------------------------------------------------- Session.run_server
\* Client.server_running
server_running == is_running

\* run_server up to Popen(): take run_server_lock, and if no server runs
\* spawn the child (transport.run, first half)
RunServer(t) ==
    /\ pc[t] = "idle"
    /\ run_server_lock = NoThread
    /\ ~server_running
    /\ spawned < limits.spawn
    /\ run_server_lock' = t
    /\ spawned' = spawned + 1
    /\ process' = spawned + 1
    /\ live' = live \cup {spawned + 1}
    /\ pc' = [pc EXCEPT ![t] = "rs_set"]
    /\ written' = <<>>
    /\ UNCHANGED <<limits, streamVars, run_event, trackerVars, listenerVars, arg, prev, req_id,
                   stale, sends>>

\* a run() that leaves the gate closed
run_event_unset == FALSE

\* the gate after `self._run_event.set()`
run_event_set == TRUE

\* transport.run, second half: self._run_event.set()
RunServerSet(t) ==
    /\ pc[t] = "rs_set"
    /\ run_event' = run_event_set
    /\ pc' = [pc EXCEPT ![t] = "rs_listen"]
    /\ UNCHANGED <<limits, streamVars, process, live, spawned, trackerVars, listenerVars, arg, prev,
                   req_id, stale, sends, run_server_lock, written>>

\* self.client.listen(): a new read-loop thread; run_server_lock is released
RunServerListen(t) ==
    /\ pc[t] = "rs_listen"
    /\ \E l \in Listeners :
          /\ lpc[l] = "unborn"
          /\ \A k \in Listeners : k < l => lpc[k] # "unborn"
          /\ lpc' = [lpc EXCEPT ![l] = "read"]
    /\ run_server_lock' = NoThread
    /\ pc' = [pc EXCEPT ![t] = "idle"]
    /\ UNCHANGED <<limits, streamVars, transportVars, trackerVars, lproc, logged, lresp, frames_read,
                   handler_calls, arg, prev, req_id, stale, sends, written>>

\* ---------------------------------------------- Client.terminate_server
\* a terminate() that leaves the gate as it finds it
run_event_kept == run_event

\* the gate after `self._run_event.clear()`
run_event_clear == FALSE

\* transport.terminate, first half: self._run_event.clear()
TerminateServer(t) ==
    /\ pc[t] = "idle"
    /\ run_event' = run_event_clear
    /\ pc' = [pc EXCEPT ![t] = "tm_kill"]
    /\ UNCHANGED <<limits, streamVars, process, live, spawned, trackerVars, listenerVars, arg, prev,
                   req_id, stale, sends, run_server_lock, written>>

\* transport.terminate, second half
TerminateServerKill(t) ==
    /\ pc[t] = "tm_kill"
    /\ Kill
    /\ pc' = [pc EXCEPT ![t] = "tm_reset"]
    /\ UNCHANGED <<limits, streamVars, spawned, run_event, trackerVars, listenerVars, arg, prev, req_id,
                   stale, sends, run_server_lock, written>>

\* self._reset_state()
TerminateServerReset(t) ==
    /\ pc[t] = "tm_reset"
    /\ ResetState
    /\ pc' = [pc EXCEPT ![t] = "idle"]
    /\ stale' = StaleAfterReset
    /\ UNCHANGED <<limits, streamVars, transportVars, listenerVars, arg, prev, req_id, sends,
                   run_server_lock, written>>

\* the child exits on its own
ChildExit ==
    /\ is_running
    /\ live' = live \ {process}
    /\ UNCHANGED <<process, spawned, run_event, trackerVars, callerVars, listenerVars,
                   run_server_lock, written>>

\* ------------------------------------------------------- Client._listen
HandlerCall(path, method, id) == [path |-> path, method |-> method, id |-> id]

\* `except EOFError: break`: the loop thread ends
LoopBreak(l) == lpc' = [lpc EXCEPT ![l] = "eof"]

\* `except Exception`: terminate_server, then the loop thread ends in "failed"
LoopFail(l) == lpc' = [lpc EXCEPT ![l] = "tm_clear"]

\* a dispatch that lets the handler's exception out
dispatch_catches_nothing == {}

\* handle_notification and handle_response: `except Exception` around
\* self.handler.handle
dispatch_catches == {"Exception"}

\* the handler was called for a notification or a response and returned, or
\* raised: a caught exception is logged and the loop goes on to the next read
HandlerReturns(l, raised) ==
    IF raised /\ "Exception" \notin dispatch_catches
    THEN LoopFail(l) /\ UNCHANGED logged
    ELSE /\ lpc' = [lpc EXCEPT ![l] = "read"]
         /\ logged' = IF raised THEN logged \cup {"exception"} ELSE logged

\* read() gets past `self._run_event.wait()` and takes self.stdout: the
\* stdout of the running child, or an empty BytesIO() when none runs
ListenGate(l) ==
    /\ lpc[l] = "read"
    /\ GateOpen
    /\ lpc' = [lpc EXCEPT ![l] = "recv"]
    /\ lproc' = [lproc EXCEPT ![l] = IF is_running THEN process ELSE None]
    /\ UNCHANGED <<transportVars, trackerVars, callerVars, lresp, logged, frames_read,
                   handler_calls, run_server_lock, written>>

\* the stream read() reads has frames to give: its child is alive
Readable(l) == lproc[l] \in live

\* readline() returns b"": the BytesIO() is empty, or the child was killed
\* or has exited
ListenClosed(l) ==
    /\ lpc[l] = "recv"
    /\ ~Readable(l)
    /\ LoopBreak(l)
    /\ UNCHANGED <<transportVars, trackerVars, callerVars, lproc, logged, lresp, frames_read,
                   handler_calls, run_server_lock, written>>

\* read() or load() raises on the next frame
ListenError(l, frame) ==
    /\ lpc[l] = "recv"
    /\ Readable(l)
    /\ frames_read < limits.frames
    /\ listen_func(frame) # ""
    /\ frames_read' = frames_read + 1
    /\ IF listen_func(frame) = "EOFError" THEN LoopBreak(l) ELSE LoopFail(l)
    /\ live' = IF Len(frame.header) # 0 /\ read(frame) = "EOFError"
               THEN live \ {lproc[l]} ELSE live
    /\ UNCHANGED <<process, spawned, run_event, trackerVars, callerVars, lproc, logged, lresp,
                   handler_calls, run_server_lock, written>>

\* handle_notification, and the message with neither method nor id
ListenNotification(l, frame) ==
    /\ lpc[l] = "recv"
    /\ Readable(l)
    /\ frames_read < limits.frames
    /\ listen_func(frame) = ""
    /\ handle_message(frame.payload) \in {"notification", "invalid"}
    /\ frames_read' = frames_read + 1
    /\ handler_calls' =
          IF handle_message(frame.payload) = "notification"
          THEN Append(handler_calls,
                      HandlerCall("notification", frame.payload.method, None))
          ELSE handler_calls
    /\ IF handle_message(frame.payload) = "notification"
       THEN \E raised \in BOOLEAN : HandlerReturns(l, raised)
       ELSE /\ lpc' = [lpc EXCEPT ![l] = "read"]
            /\ logged' = logged \cup {"invalid"}
    /\ UNCHANGED <<transportVars, trackerVars, callerVars, lproc, lresp,
                   run_server_lock, written>>

\* handle_request up to send_response: the handler returns or raises
ListenRequest(l, frame, raised) ==
    /\ lpc[l] = "recv"
    /\ Readable(l)
    /\ frames_read < limits.frames
    /\ listen_func(frame) = ""
    /\ handle_message(frame.payload) = "request"
    /\ frames_read' = frames_read + 1
    /\ handler_calls' = Append(handler_calls,
                               HandlerCall("request", frame.payload.method,
                                           frame.payload.id))
    /\ lresp' = [lresp EXCEPT ![l] = [id |-> frame.payload.id, error |-> raised]]
    /\ lpc' = [lpc EXCEPT ![l] = "respond"]
    /\ UNCHANGED <<transportVars, trackerVars, callerVars, lproc, logged,
                   run_server_lock, written>>

\* a response that carries "result" whatever the error argument is
response_result_only(error) == "result"

\* RPCMessage.response(id, result, error): the member next to the id
response(error) == IF error THEN "error" ELSE "result"

\* send_response: the write of the response frame
ListenRespond(l) ==
    /\ lpc[l] = "respond"
    /\ GateOpen
    /\ IF WriteOutcome = "BrokenPipeError"
       THEN LoopFail(l) /\ UNCHANGED written
       ELSE /\ written' = send_message(Frame("response", lresp[l].id, NoMethod,
                                             response(lresp[l].error)))
            /\ lpc' = [lpc EXCEPT ![l] = "read"]
    /\ lresp' = [lresp EXCEPT ![l] = NoResponse]
    /\ UNCHANGED <<transportVars, trackerVars, callerVars, lproc, logged, frames_read,
                   handler_calls, run_server_lock>>

\* a handle_response with `except KeyError` alone
handle_response_catches_keyerror == {"KeyError"}

\* handle_response: `except (Canceled, KeyError): return`
handle_response_catches == {"Canceled", "KeyError"}

\* handle_response
ListenResponse(l, frame) ==
    /\ lpc[l] = "recv"
    /\ Readable(l)
    /\ frames_read < limits.frames
    /\ listen_func(frame) = ""
    /\ handle_message(frame.payload) = "response"
    /\ LockFree
    /\ frames_read' = frames_read + 1
    /\ request_map' = get_request_map(frame.payload.id)
    /\ canceled_request' = get_request_canceled(frame.payload.id)
    /\ born' = [i \in Pending \ {frame.payload.id} |-> born[i]]
    /\ handler_calls' =
          IF get_request(frame.payload.id).raises # ""
          THEN handler_calls
          ELSE Append(handler_calls,
                      HandlerCall("response", get_request(frame.payload.id).method,
                                  frame.payload.id))
    /\ IF get_request(frame.payload.id).raises = ""
       THEN \E raised \in BOOLEAN : HandlerReturns(l, raised)
       ELSE /\ IF get_request(frame.payload.id).raises \in handle_response_catches
               THEN lpc' = [lpc EXCEPT ![l] = "read"]
               ELSE LoopFail(l)
            /\ UNCHANGED logged
    /\ UNCHANGED <<transportVars, callerVars, request_count, lock, lproc, lresp,
                   run_server_lock, written>>

\* terminate_server in the read loop, after an exception other than EOFError
ListenTerminate(l) ==
    /\ lpc[l] = "tm_clear"
    /\ run_event' = run_event_clear
    /\ lpc' = [lpc EXCEPT ![l] = "tm_kill"]
    /\ UNCHANGED <<process, live, spawned, trackerVars, callerVars, lproc, logged, lresp,
                   frames_read, handler_calls, run_server_lock, written>>

ListenTerminateKill(l) ==
    /\ lpc[l] = "tm_kill"
    /\ Kill
    /\ lpc' = [lpc EXCEPT ![l] = "tm_reset"]
    /\ UNCHANGED <<spawned, run_event, trackerVars, callerVars, lproc, logged, lresp,
                   frames_read, handler_calls, run_server_lock, written>>

ListenTerminateReset(l) ==
    /\ lpc[l] = "tm_reset"
    /\ ResetState
    /\ stale' = StaleAfterReset
    /\ lpc' = [lpc EXCEPT ![l] = "failed"]
    /\ UNCHANGED <<limits, streamVars, transportVars, pc, arg, prev, req_id, sends, lproc,
                   logged, lresp, frames_read, handler_calls, run_server_lock, written>>

\* -------------------------------------------------------- specification
Next ==
    \/ \E t \in Main, m \in Methods : SendRequest(t, m)
    \/ \E t \in Main : SendRequestCancel(t)
    \/ \E t \in Main : SendRequestNotify(t)
    \/ \E t \in Main : AddRequestEnter(t)
    \/ \E t \in Main : AddRequestStore(t)
    \/ \E t \in Main : SendRequestCount(t)
    \/ \E t \in Main : SendRequestWrite(t)
    \/ \E t \in Main : RunServer(t)
    \/ \E t \in Main : RunServerSet(t)
    \/ \E t \in Main : RunServerListen(t)
    \/ \E t \in Main : TerminateServer(t)
    \/ \E t \in Main : TerminateServerKill(t)
    \/ \E t \in Main : TerminateServerReset(t)
    \/ ChildExit
    \/ \E l \in Listeners : ListenGate(l)
    \/ \E l \in Listeners : ListenClosed(l)
    \/ \E l \in Listeners, f \in Frames : ListenError(l, f)
    \/ \E l \in Listeners, f \in Frames : ListenNotification(l, f)
    \/ \E l \in Listeners, f \in Frames, raised \in BOOLEAN : ListenRequest(l, f, raised)
    \/ \E l \in Listeners : ListenRespond(l)
    \/ \E l \in Listeners, f \in Frames : ListenResponse(l, f)
    \/ \E l \in Listeners : ListenTerminate(l)
    \/ \E l \in Listeners : ListenTerminateKill(l)
    \/ \E l \in Listeners : ListenTerminateReset(l)

Spec == Init /\ [][Next]_vars

\* the state Session.run_server leaves behind on a fresh client: the first
\* child runs, the gate is open and the first read loop waits for a frame
Started ==
    /\ SessionNew
    /\ process = 1
    /\ live = {1}
    /\ spawned = 1
    /\ run_event = TRUE
    /\ request_map = EmptyMap
    /\ canceled_request = {}
    /\ request_count = 0
    /\ lock = NoThread
    /\ run_server_lock = NoThread
    /\ pc = [t \in Callers |-> "idle"]
    /\ arg = [t \in Callers |-> NoMethod]
    /\ prev = [t \in Callers |-> None]
    /\ req_id = [t \in Callers |-> None]
    /\ stale = [t \in Callers |-> FALSE]
    /\ lpc = [l \in Listeners |-> IF l = 1 THEN "read" ELSE "unborn"]
    /\ lproc = [l \in Listeners |-> None]
    /\ lresp = [l \in Listeners |-> NoResponse]
    /\ logged = {}
    /\ frames_read = 0
    /\ sends = 0
    /\ written = <<>>
    /\ handler_calls = <<>>
    /\ born = EmptyBorn

ServerStarted == Started /\ StreamsIdle

\* request and response traffic with the server running
Traffic(threads) ==
    \/ \E t \in threads, m \in Methods : SendRequest(t, m)
    \/ \E t \in threads : SendRequestCancel(t)
    \/ \E t \in threads : SendRequestNotify(t)
    \/ \E t \in threads : AddRequestEnter(t)
    \/ \E t \in threads : AddRequestStore(t)
    \/ \E t \in threads : SendRequestCount(t)
    \/ \E t \in threads : SendRequestWrite(t)
    \/ \E l \in Listeners : ListenGate(l)
    \/ \E l \in Listeners, f \in Frames : ListenNotification(l, f)
    \/ \E l \in Listeners, f \in Frames, raised \in BOOLEAN : ListenRequest(l, f, raised)
    \/ \E l \in Listeners : ListenRespond(l)
    \/ \E l \in Listeners, f \in Frames : ListenResponse(l, f)

InitSend ==
    /\ ServerStarted
    /\ limits = [requests |-> MaxSendRequests, frames |-> MaxSendFrames, spawn |-> 1,
                 writes |-> 0]

NextSend == Traffic(Main)

SpecSend == InitSend /\ [][NextSend]_vars

InitRace ==
    /\ ServerStarted
    /\ limits = [requests |-> MaxRaceRequests, frames |-> MaxRaceFrames, spawn |-> 1,
                 writes |-> 0]

NextRace == Traffic(Callers)

SpecRace == InitRace /\ [][NextRace]_vars

\* starting and stopping the server while frames arrive, with no request sent
InitLoops ==
    /\ Constructed
    /\ limits = [requests |-> 0, frames |-> MaxLoopFrames, spawn |-> MaxSpawn,
                 writes |-> 0]

NextLoops ==
    \/ \E t \in Main : RunServer(t)
    \/ \E t \in Main : RunServerSet(t)
    \/ \E t \in Main : RunServerListen(t)
    \/ \E t \in Main : TerminateServer(t)
    \/ \E t \in Main : TerminateServerKill(t)
    \/ \E t \in Main : TerminateServerReset(t)
    \/ ChildExit
    \/ \E l \in Listeners : ListenGate(l)
    \/ \E l \in Listeners : ListenClosed(l)
    \/ \E l \in Listeners, f \in Frames : ListenError(l, f)
    \/ \E l \in Listeners, f \in Frames : ListenNotification(l, f)
    \/ \E l \in Listeners, f \in Frames, raised \in BOOLEAN : ListenRequest(l, f, raised)
    \/ \E l \in Listeners : ListenRespond(l)
    \/ \E l \in Listeners, f \in Frames : ListenResponse(l, f)
    \/ \E l \in Listeners : ListenTerminate(l)
    \/ \E l \in Listeners : ListenTerminateKill(l)
    \/ \E l \in Listeners : ListenTerminateReset(l)

SpecLoops == InitLoops /\ [][NextLoops]_vars

\* ------------------------------------------------------ StandardIO.write
\* the largest write the pipe takes in one piece: a longer one is copied in
\* parts, and the parts of another thread's write may land in between
PipeBuf == 3

\* the content of the n-th frame, length bytes long
Content(n, length) == [i \in 1..length |-> Byte(10 * n + i)]

\* write(data) up to the call of self.stdin.write: wait for the gate, wrap
Write(t, length) ==
    /\ pc[t] = "idle"
    /\ writes < limits.writes
    /\ GateOpen
    /\ WriteOutcome = "pipe"
    /\ writes' = writes + 1
    /\ wbuf' = [wbuf EXCEPT ![t] =
                  [frame |-> writes + 1,
                   size |-> Len(wrap_rpc(Content(writes + 1, length))),
                   done |-> 0]]
    /\ pc' = [pc EXCEPT ![t] = "w_stdin"]
    /\ UNCHANGED <<limits, sessionVars, transportVars, trackerVars, listenerVars, arg, prev, req_id,
                   stale, sends, run_server_lock, written, pipe, stdout, call, rd, reads>>

\* the bytes done+1 .. done+k of the frame a thread writes
Part(w, k) == [i \in 1..k |-> [frame |-> w.frame, index |-> w.done + i]]

\* self.stdin.write(prepared_data) on the unbuffered pipe (bufsize=0), with no
\* lock around it: k more bytes arrive; flush() and return after the last
StdinWrite(t, k) ==
    /\ pc[t] = "w_stdin"
    /\ k \in 1..(wbuf[t].size - wbuf[t].done)
    /\ wbuf[t].size <= PipeBuf => k = wbuf[t].size
    /\ pipe' = pipe \o Part(wbuf[t], k)
    /\ IF wbuf[t].done + k = wbuf[t].size
       THEN /\ wbuf' = [wbuf EXCEPT ![t] = NoWrite]
            /\ pc' = [pc EXCEPT ![t] = "idle"]
       ELSE /\ wbuf' = [wbuf EXCEPT ![t].done = @ + k]
            /\ UNCHANGED pc
    /\ UNCHANGED <<limits, sessionVars, transportVars, trackerVars, listenerVars, arg, prev, req_id,
                   stale, sends, run_server_lock, written, writes, stdout, call, rd, reads>>

InitWrite ==
    /\ ServerStarted
    /\ limits = [requests |-> 0, frames |-> 0, spawn |-> 1, writes |-> MaxWrites]

NextWrite ==
    \/ \E t \in Callers, length \in 1..MaxContent : Write(t, length)
    \/ \E t \in Callers, k \in 1..(MaxContent + 2) : StdinWrite(t, k)

SpecWrite == InitWrite /\ [][NextWrite]_vars

\* ------------------------------------------------------- StandardIO.read
\* a frame as the server writes it: header lines, blank line, body
Wire(frame) == frame.header \o <<Blank>> \o frame.body

\* the k-th frame of a stream, well formed, with a body of n bytes
WellFormed(k, n) ==
    {[header |-> h, body |-> Content(k, n)] :
        h \in {<<ContentLength(n)>>, <<OtherHeader, ContentLength(n)>>}}

\* the streams of at most MaxStreamFrames well-formed frames
FrameSeqs ==
    UNION {{fs \in [1..m -> UNION {WellFormed(k, n) : k \in 1..m, n \in 0..MaxBody}] :
               \A k \in 1..m : \E n \in 0..MaxBody : fs[k] \in WellFormed(k, n)} :
           m \in 0..MaxStreamFrames}

RECURSIVE Concat(_)
Concat(fs) == IF fs = <<>> THEN <<>> ELSE Wire(Head(fs)) \o Concat(Tail(fs))

\* what the child puts on its stdout before the stream closes: the frames,
\* or a part of them when the child goes away early
Streams ==
    UNION {{[bytes |-> SubSeq(Concat(fs), 1, cut), frames |-> fs] :
               cut \in 0..Len(Concat(fs))} : fs \in FrameSeqs}

\* a read() whose content loop gives up when stdout.read returns b""
empty_chunk_returns == ""

\* the content loop on `chunk` empty: raise EOFError("stdout closed")
empty_chunk == "EOFError"

\* a content loop that stops after the first chunk
content_done_after_chunk(n_content, content_length) == n_content > 0

\* the content loop ends: not `n_content < content_length`
content_done(n_content, content_length) == ~(n_content < content_length)

\* read() ends: its result or exception is recorded, its locals are kept
ReadEnds(raises, locals) ==
    /\ reads' = Append(reads, [raises |-> raises,
                               content |-> IF raises = "" THEN locals.temp_content
                                           ELSE <<>>,
                               calls |-> locals.calls])
    /\ rd' = [locals EXCEPT !.phase = IF raises = "" THEN "idle" ELSE "raised"]

\* read(): self._run_event.wait(), then the locals are set up
ReadWait ==
    /\ rd.phase = "idle"
    /\ GateOpen
    /\ rd' = [phase |-> "header", pos |-> rd.pos, n_header |-> 0, temp_header |-> <<>>,
              content_length |-> None, temp_content |-> <<>>, calls |-> 0]
    /\ UNCHANGED <<limits, sessionVars, transportVars, trackerVars, listenerVars, pc, arg, prev, req_id,
                   stale, sends, run_server_lock, written, pipe, wbuf, writes, stdout, call,
                   reads>>

\* after the header loop: no header means EOFError, a header without
\* Content-Length means HeaderError, and an empty body is returned at once
AfterHeader(locals) ==
    IF locals.n_header = 0 THEN ReadEnds("EOFError", locals)
    ELSE IF get_content_length(locals.temp_header) = None
         THEN ReadEnds("HeaderError", locals)
         ELSE LET parsed == [locals EXCEPT
                               !.content_length = get_content_length(locals.temp_header)]
              IN  IF content_done(0, parsed.content_length)
                  THEN ReadEnds("", parsed)
                  ELSE /\ rd' = [parsed EXCEPT !.phase = "content"]
                       /\ UNCHANGED reads

\* one self.stdout.readline() of the header loop
ReadHeaderLine ==
    /\ rd.phase = "header"
    /\ IF rd.pos > Len(stdout.bytes)
       THEN AfterHeader(rd)
       ELSE IF stdout.bytes[rd.pos] = Blank
            THEN AfterHeader([rd EXCEPT !.pos = @ + 1])
            ELSE /\ rd' = [rd EXCEPT !.pos = @ + 1,
                                     !.n_header = @ + 1,
                                     !.temp_header = Append(@, stdout.bytes[rd.pos])]
                 /\ UNCHANGED reads
    /\ UNCHANGED <<limits, sessionVars, transportVars, trackerVars, listenerVars, pc, arg, prev, req_id,
                   stale, sends, run_server_lock, written, pipe, wbuf, writes, stdout, call>>

\* one self.stdout.read(unread_length) of the content loop: the stream gives
\* k bytes, at most unread_length, or b"" when it has closed
ReadContentChunk(k) ==
    /\ rd.phase = "content"
    /\ IF rd.pos > Len(stdout.bytes)
       THEN /\ k = 1
            /\ ReadEnds(empty_chunk, [rd EXCEPT !.calls = @ + 1])
       ELSE /\ k <= rd.content_length - Len(rd.temp_content)
            /\ k <= Len(stdout.bytes) - rd.pos + 1
            /\ LET got == [rd EXCEPT
                             !.pos = @ + k,
                             !.calls = @ + 1,
                             !.temp_content =
                                 @ \o SubSeq(stdout.bytes, rd.pos, rd.pos + k - 1)]
               IN  IF content_done(Len(got.temp_content), got.content_length)
                   THEN ReadEnds("", got)
                   ELSE rd' = got /\ UNCHANGED reads
    /\ UNCHANGED <<limits, sessionVars, transportVars, trackerVars, listenerVars, pc, arg, prev, req_id,
                   stale, sends, run_server_lock, written, pipe, wbuf, writes, stdout, call>>

InitRead ==
    /\ Started
    /\ CallsIdle
    /\ WritesIdle
    /\ ReadsIdle
    /\ stdout \in Streams
    /\ limits = [requests |-> 0, frames |-> 0, spawn |-> 1, writes |-> 0]

NextRead ==
    \/ ReadWait
    \/ ReadHeaderLine
    \/ \E k \in 1..MaxBody : ReadContentChunk(k)

SpecRead == InitRead /\ [][NextRead]_vars

\* -------------------------------------- send_request across a restart
InitRestart ==
    /\ ServerStarted
    /\ limits = [requests |-> MaxRestartRequests, frames |-> MaxRestartFrames,
                 spawn |-> MaxSpawn, writes |-> 0]

\* the thread of the terminate command and of the next run_server
Restarter == Callers \ Main

NextRestart ==
    \/ Traffic(Main)
    \/ \E t \in Restarter : RunServer(t)
    \/ \E t \in Restarter : RunServerSet(t)
    \/ \E t \in Restarter : RunServerListen(t)
    \/ \E t \in Restarter : TerminateServer(t)
    \/ \E t \in Restarter : TerminateServerKill(t)
    \/ \E t \in Restarter : TerminateServerReset(t)
    \/ \E l \in Listeners : ListenClosed(l)

SpecRestart == InitRestart /\ [][NextRestart]_vars

\* ----------------------------------- send_request across a reset alone
InitReset ==
    /\ ServerStarted
    /\ limits = [requests |-> MaxResetRequests, frames |-> 0, spawn |-> 1, writes |-> 0]

NextReset ==
    \/ \E t \in Callers, m \in Methods : SendRequest(t, m)
    \/ \E t \in Callers : SendRequestCancel(t)
    \/ \E t \in Callers : SendRequestNotify(t)
    \/ \E t \in Callers : AddRequestEnter(t)
    \/ \E t \in Callers : AddRequestStore(t)
    \/ \E t \in Callers : SendRequestCount(t)
    \/ \E t \in Callers : SendRequestWrite(t)
    \/ \E t \in Restarter : TerminateServer(t)
    \/ \E t \in Restarter : TerminateServerKill(t)
    \/ \E t \in Restarter : TerminateServerReset(t)

SpecReset == InitReset /\ [][NextReset]_vars

\* ------------------------------------------ send_request before run()
InitStart ==
    /\ Constructed
    /\ limits = [requests |-> MaxStartRequests, frames |-> 0, spawn |-> MaxSpawn,
                 writes |-> 0]

\* a write() by the sending thread: the cancel notification or the request
BlockedWrite ==
    \/ \E t \in Main : SendRequestNotify(t)
    \/ \E t \in Main : SendRequestWrite(t)

NextStart ==
    \/ \E t \in Main, m \in Methods : SendRequest(t, m)
    \/ \E t \in Main : SendRequestCancel(t)
    \/ \E t \in Main : AddRequestEnter(t)
    \/ \E t \in Main : AddRequestStore(t)
    \/ \E t \in Main : SendRequestCount(t)
    \/ BlockedWrite
    \/ \E t \in Restarter : RunServer(t)
    \/ \E t \in Restarter : RunServerSet(t)
    \/ \E t \in Restarter : RunServerListen(t)
    \/ \E t \in Restarter : TerminateServer(t)
    \/ \E t \in Restarter : TerminateServerKill(t)
    \/ \E t \in Restarter : TerminateServerReset(t)
    \/ \E l \in Listeners : ListenGate(l)
    \/ \E l \in Listeners : ListenClosed(l)

SpecStart == InitStart /\ [][NextStart]_vars

\* a thread that waits in Event.wait() runs again once the event is set and
\* stays set
SpecStartFair == SpecStart /\ WF_vars(BlockedWrite)

\* ------------------------------ run_server against terminate(), by statement
\* StandardIO.terminate: `if self._process:`, then kill() and wait() on the
\* handle the transport holds
TerminateKillWait(t) ==
    /\ pc[t] = "tm_kill"
    /\ live' = IF process # None THEN live \ {process} ELSE live
    /\ pc' = [pc EXCEPT ![t] = IF process # None THEN "tm_none" ELSE "tm_reset"]
    /\ UNCHANGED <<limits, streamVars, process, spawned, run_event, trackerVars, listenerVars,
                   arg, prev, req_id, stale, sends, run_server_lock, written>>

\* StandardIO.terminate: `self._process = None`, whatever the handle is now
TerminateRelease(t) ==
    /\ pc[t] = "tm_none"
    /\ process' = None
    /\ pc' = [pc EXCEPT ![t] = "tm_reset"]
    /\ UNCHANGED <<limits, streamVars, live, spawned, run_event, trackerVars, listenerVars,
                   arg, prev, req_id, stale, sends, run_server_lock, written>>

InitSpawn ==
    /\ ServerStarted
    /\ limits = [requests |-> 0, frames |-> 0, spawn |-> MaxChildren, writes |-> 0]

NextSpawn ==
    \/ \E t \in Callers : RunServer(t)
    \/ \E t \in Callers : RunServerSet(t)
    \/ \E t \in Callers : RunServerListen(t)
    \/ \E t \in Callers : TerminateServer(t)
    \/ \E t \in Callers : TerminateKillWait(t)
    \/ \E t \in Callers : TerminateRelease(t)
    \/ \E t \in Callers : TerminateServerReset(t)
    \/ ChildExit

SpecSpawn == InitSpawn /\ [][NextSpawn]_vars

\* --------------------------------------- the read loop, scheduled
\* a step a read-loop thread takes on its own: past the gate once it is
\* open, the end of a closed stream, send_response, terminate_server
LoopStep(l) ==
    \/ ListenGate(l)
    \/ ListenClosed(l)
    \/ ListenRespond(l)
    \/ ListenTerminate(l)
    \/ ListenTerminateKill(l)
    \/ ListenTerminateReset(l)

\* a step that finishes the call an application thread is in
CallStep(t) ==
    \/ RunServerSet(t)
    \/ RunServerListen(t)
    \/ TerminateServerKill(t)
    \/ TerminateServerReset(t)

\* every thread that can take a step gets to take it
SpecLoopsFair ==
    /\ SpecLoops
    /\ \A l \in Listeners : WF_vars(LoopStep(l))
    /\ \A t \in Main : WF_vars(CallStep(t))

\* ------------------------------------- write() against terminate()
\* Client.send_notification: the message goes to send_message, which calls
\* transport.write
SendNotification(t, method) ==
    /\ pc[t] = "idle"
    /\ sends < limits.requests
    /\ sends' = sends + 1
    /\ arg' = [arg EXCEPT ![t] = method]
    /\ pc' = [pc EXCEPT ![t] = "wr_wait"]
    /\ UNCHANGED <<limits, streamVars, transportVars, trackerVars, listenerVars, prev, req_id,
                   stale, run_server_lock, written>>

\* StandardIO.write: self._run_event.wait() returns
WriteWait(t) ==
    /\ pc[t] = "wr_wait"
    /\ GateOpen
    /\ pc' = [pc EXCEPT ![t] = "wr_stdin"]
    /\ UNCHANGED <<limits, streamVars, transportVars, trackerVars, listenerVars, arg, prev,
                   req_id, stale, sends, run_server_lock, written>>

\* StandardIO.write: self.stdin is evaluated now; the frame goes to the pipe
\* of the child, into the BytesIO() standing in for it, or the write raises
WriteStdin(t) ==
    /\ pc[t] = "wr_stdin"
    /\ written' = IF WriteOutcome = "pipe"
                  THEN send_message(Frame("notification", None, arg[t], "params"))
                  ELSE written
    /\ Return(t)
    /\ UNCHANGED <<limits, streamVars, transportVars, trackerVars, listenerVars, sends,
                   run_server_lock>>

InitGate ==
    /\ ServerStarted
    /\ limits = [requests |-> MaxGateWrites, frames |-> 0, spawn |-> MaxSpawn, writes |-> 0]

NextGate ==
    \/ \E t \in Main, m \in Methods : SendNotification(t, m)
    \/ \E t \in Main : WriteWait(t)
    \/ \E t \in Main : WriteStdin(t)
    \/ \E t \in Restarter : RunServer(t)
    \/ \E t \in Restarter : RunServerSet(t)
    \/ \E t \in Restarter : RunServerListen(t)
    \/ \E t \in Restarter : TerminateServer(t)
    \/ \E t \in Restarter : TerminateServerKill(t)
    \/ \E t \in Restarter : TerminateServerReset(t)

SpecGate == InitGate /\ [][NextGate]_vars

\* ------------------------------------------------------ ClangdClient
InitializeMethod == "initialize"
InitializedMethod == "initialized"
DidOpenMethod == "textDocument/didOpen"
HoverMethod == "hover"

\* Session.reset: the status of a session that is not initialized
session_reset == "NotInitialized"

\* ClangdClient.reset_session: self.session.reset(); self.initialize_event.clear()
ResetSession ==
    /\ inittialize_status' = session_reset
    /\ initialize_event' = FALSE

\* a method of ClangdClient calls self.send_request(method, ...): the first
\* line of send_request
CallSendRequest(t, method) ==
    /\ LockFree
    /\ arg' = [arg EXCEPT ![t] = method]
    /\ prev' = [prev EXCEPT ![t] = get_request_id(method)]
    /\ pc' = [pc EXCEPT ![t] =
                IF get_request_id(method) # None THEN "sr_cancel" ELSE "sr_add"]

\* initialize: the call goes on unless the status is Initializing
Initialize(t) ==
    /\ pc[t] = "idle"
    /\ sends < limits.requests
    /\ inittialize_status # "Initializing"
    /\ sends' = sends + 1
    /\ pc' = [pc EXCEPT ![t] = "in_set"]
    /\ UNCHANGED <<limits, streamVars, transportVars, trackerVars, listenerVars, arg, prev,
                   req_id, stale, run_server_lock, written>>

\* self.session.inittialize_status = InitializeStatus.Initializing
InitializeSet(t) ==
    /\ pc[t] = "in_set"
    /\ inittialize_status' = "Initializing"
    /\ pc' = [pc EXCEPT ![t] = "in_send"]
    /\ UNCHANGED <<limits, ioVars, initialize_event, transportVars, trackerVars, listenerVars,
                   arg, prev, req_id, stale, sends, run_server_lock, written>>

\* self.send_request("initialize", ...)
InitializeSend(t) ==
    /\ pc[t] = "in_send"
    /\ CallSendRequest(t, InitializeMethod)
    /\ UNCHANGED <<limits, streamVars, transportVars, trackerVars, listenerVars, req_id,
                   stale, sends, run_server_lock, written>>

\* textdocument_hover under cancel_if_unset: the call goes on when the event
\* is set
TextDocumentHover(t) ==
    /\ pc[t] = "idle"
    /\ sends < limits.requests
    /\ initialize_event
    /\ sends' = sends + 1
    /\ pc' = [pc EXCEPT ![t] = "td_send"]
    /\ UNCHANGED <<limits, streamVars, transportVars, trackerVars, listenerVars, arg, prev,
                   req_id, stale, run_server_lock, written>>

\* self.send_request("textDocument/hover", ...)
TextDocumentHoverSend(t) ==
    /\ pc[t] = "td_send"
    /\ CallSendRequest(t, HoverMethod)
    /\ UNCHANGED <<limits, streamVars, transportVars, trackerVars, listenerVars, req_id,
                   stale, sends, run_server_lock, written>>

\* textdocument_didopen under wait: the call starts
TextDocumentDidOpen(t) ==
    /\ pc[t] = "idle"
    /\ sends < limits.requests
    /\ sends' = sends + 1
    /\ pc' = [pc EXCEPT ![t] = "do_wait"]
    /\ UNCHANGED <<limits, streamVars, transportVars, trackerVars, listenerVars, arg, prev,
                   req_id, stale, run_server_lock, written>>

\* event.wait() returns; the document is new to the session, so
\* self.send_notification("textDocument/didOpen", ...) follows
TextDocumentDidOpenWait(t) ==
    /\ pc[t] = "do_wait"
    /\ initialize_event
    /\ arg' = [arg EXCEPT ![t] = DidOpenMethod]
    /\ pc' = [pc EXCEPT ![t] = "wr_wait"]
    /\ UNCHANGED <<limits, streamVars, transportVars, trackerVars, listenerVars, prev,
                   req_id, stale, sends, run_server_lock, written>>

\* start_server: the lock is taken and no server is running
StartServer(t) ==
    /\ pc[t] = "idle"
    /\ run_server_lock = NoThread
    /\ ~is_running
    /\ spawned < limits.spawn
    /\ run_server_lock' = t
    /\ pc' = [pc EXCEPT ![t] = "ss_reset"]
    /\ UNCHANGED <<limits, streamVars, transportVars, trackerVars, listenerVars, arg, prev,
                   req_id, stale, sends, written>>

\* self.reset_session()
StartServerReset(t) ==
    /\ pc[t] = "ss_reset"
    /\ ResetSession
    /\ pc' = [pc EXCEPT ![t] = "ss_run"]
    /\ UNCHANGED <<limits, ioVars, transportVars, trackerVars, listenerVars, arg, prev,
                   req_id, stale, sends, run_server_lock, written>>

\* self.server.run(env), up to the Popen()
StartServerRun(t) ==
    /\ pc[t] = "ss_run"
    /\ spawned' = spawned + 1
    /\ process' = spawned + 1
    /\ live' = live \cup {spawned + 1}
    /\ written' = <<>>
    /\ pc' = [pc EXCEPT ![t] = "rs_set"]
    /\ UNCHANGED <<limits, streamVars, run_event, trackerVars, listenerVars, arg, prev,
                   req_id, stale, sends, run_server_lock>>

\* terminate: self.reset_session() after self.server.terminate()
TerminateResetSession(t) ==
    /\ pc[t] = "tm_reset"
    /\ ResetSession
    /\ pc' = [pc EXCEPT ![t] = "idle"]
    /\ UNCHANGED <<limits, ioVars, transportVars, trackerVars, listenerVars, arg, prev,
                   req_id, stale, sends, run_server_lock, written>>

\* handle_response of a ClangdClient: the request is looked up and the
\* handler registered for its method is called; handle_initialize returns at
\* once for a response that carries an error
ClangdResponse(l, frame, error) ==
    /\ lpc[l] = "recv"
    /\ Readable(l)
    /\ frames_read < limits.frames
    /\ listen_func(frame) = ""
    /\ handle_message(frame.payload) = "response"
    /\ LockFree
    /\ frames_read' = frames_read + 1
    /\ request_map' = get_request_map(frame.payload.id)
    /\ canceled_request' = get_request_canceled(frame.payload.id)
    /\ born' = [i \in Pending \ {frame.payload.id} |-> born[i]]
    /\ handler_calls' =
          IF get_request(frame.payload.id).raises # ""
          THEN handler_calls
          ELSE Append(handler_calls,
                      HandlerCall(response(error), get_request(frame.payload.id).method,
                                  frame.payload.id))
    /\ lpc' = [lpc EXCEPT ![l] =
                 IF /\ get_request(frame.payload.id).raises = ""
                    /\ get_request(frame.payload.id).method = InitializeMethod
                    /\ ~error
                 THEN "hi_notify" ELSE "read"]
    /\ UNCHANGED <<transportVars, callerVars, request_count, lock, lproc, lresp, logged,
                   run_server_lock, written>>

\* handle_initialize: self.send_notification("initialized", {}); an exception
\* of the write is caught by handle_response
HandleInitializeNotify(l) ==
    /\ lpc[l] = "hi_notify"
    /\ GateOpen
    /\ written' = IF WriteOutcome = "pipe"
                  THEN send_message(Frame("notification", None, InitializedMethod, "params"))
                  ELSE written
    /\ lpc' = [lpc EXCEPT ![l] =
                 IF WriteOutcome = "BrokenPipeError" THEN "read" ELSE "hi_set"]
    /\ logged' = IF WriteOutcome = "BrokenPipeError"
                 THEN logged \cup {"exception"} ELSE logged
    /\ UNCHANGED <<transportVars, trackerVars, callerVars, lproc, lresp, frames_read,
                   handler_calls, run_server_lock>>

\* handle_initialize: the status becomes Initialized and the event is set
HandleInitializeSet(l) ==
    /\ lpc[l] = "hi_set"
    /\ inittialize_status' = "Initialized"
    /\ initialize_event' = TRUE
    /\ lpc' = [lpc EXCEPT ![l] = "read"]
    /\ UNCHANGED <<limits, ioVars, transportVars, trackerVars, pc, arg, prev, req_id, stale,
                   sends, lproc, lresp, logged, frames_read, handler_calls,
                   run_server_lock, written>>

\* the rest of send_request, and the read loop of a ClangdClient
SendSteps(threads) ==
    \/ \E t \in threads : SendRequestCancel(t)
    \/ \E t \in threads : SendRequestNotify(t)
    \/ \E t \in threads : AddRequestEnter(t)
    \/ \E t \in threads : AddRequestStore(t)
    \/ \E t \in threads : SendRequestCount(t)
    \/ \E t \in threads : SendRequestWrite(t)

ClangdLoop ==
    \/ \E l \in Listeners : ListenGate(l)
    \/ \E l \in Listeners, f \in Frames, error \in BOOLEAN : ClangdResponse(l, f, error)
    \/ \E l \in Listeners : HandleInitializeNotify(l)
    \/ \E l \in Listeners : HandleInitializeSet(l)

\* initialize called from two threads on a running server
InitInitialize ==
    /\ ServerStarted
    /\ limits = [requests |-> MaxInitializeCalls, frames |-> MaxInitializeFrames,
                 spawn |-> 1, writes |-> 0]

NextInitialize ==
    \/ \E t \in Callers : Initialize(t)
    \/ \E t \in Callers : InitializeSet(t)
    \/ \E t \in Callers : InitializeSend(t)
    \/ SendSteps(Callers)
    \/ ClangdLoop

SpecInitialize == InitInitialize /\ [][NextInitialize]_vars

\* one thread opens documents and asks for hovers while another starts,
\* initializes and terminates the server
InitSession ==
    /\ Constructed
    /\ limits = [requests |-> MaxSessionCalls, frames |-> MaxSessionFrames,
                 spawn |-> MaxSpawn, writes |-> 0]

NextSession ==
    \/ \E t \in Main : TextDocumentHover(t)
    \/ \E t \in Main : TextDocumentHoverSend(t)
    \/ \E t \in Main : TextDocumentDidOpen(t)
    \/ \E t \in Main : TextDocumentDidOpenWait(t)
    \/ \E t \in Main : WriteWait(t)
    \/ \E t \in Main : WriteStdin(t)
    \/ \E t \in Restarter : Initialize(t)
    \/ \E t \in Restarter : InitializeSet(t)
    \/ \E t \in Restarter : InitializeSend(t)
    \/ SendSteps(Callers)
    \/ \E t \in Restarter : StartServer(t)
    \/ \E t \in Restarter : StartServerReset(t)
    \/ \E t \in Restarter : StartServerRun(t)
    \/ \E t \in Restarter : RunServerSet(t)
    \/ \E t \in Restarter : RunServerListen(t)
    \/ \E t \in Restarter : TerminateServer(t)
    \/ \E t \in Restarter : TerminateServerKill(t)
    \/ \E t \in Restarter : TerminateResetSession(t)
    \/ \E l \in Listeners : ListenClosed(l)
    \/ ClangdLoop

SpecSession == InitSession /\ [][NextSession]_vars

\* --------------------------------------- wrap_rpc, get_content_length
\* the bytes of a frame, one element a byte, the literal "Content-Length: "
\* of the format string and of the pattern being one element
CR == "\r"
LF == "\n"
LengthName == "Content-Length: "
DigitChars == <<"0", "1", "2", "3", "4", "5", "6", "7", "8", "9">>

IsDigit(c) == \E d \in 1..10 : DigitChars[d] = c
DigitValue(c) == (CHOOSE d \in 1..10 : DigitChars[d] = c) - 1

\* a "%d" that prints the last digit only
format_d_last_digit(n) == <<DigitChars[(n % 10) + 1]>>

\* b"%d" % n
RECURSIVE format_d(_)
format_d(n) ==
    IF n < 10 THEN <<DigitChars[n + 1]>>
    ELSE format_d(n \div 10) \o <<DigitChars[(n % 10) + 1]>>

\* wrap_rpc: header = b"Content-Length: %d\r\n" % len(content)
wrap_rpc_header(content) == <<LengthName>> \o format_d(Len(content)) \o <<CR, LF>>

\* wrap_rpc: b"%s\r\n%s" % (header, content)
wrap_rpc_bytes(content) == wrap_rpc_header(content) \o <<CR, LF>> \o content

\* int(match.group(1))
RECURSIVE int(_)
int(digits) ==
    IF digits = <<>> THEN 0
    ELSE 10 * int(SubSeq(digits, 1, Len(digits) - 1)) + DigitValue(digits[Len(digits)])

\* bytes.splitlines(): lines end at "\r\n", "\n" or "\r"
RECURSIVE splitlines(_)
splitlines(bytes) ==
    IF bytes = <<>> THEN <<>>
    ELSE LET ends == {k \in 1..Len(bytes) : bytes[k] \in {CR, LF}}
         IN  IF ends = {} THEN <<bytes>>
             ELSE LET k == Min(ends)
                      skip == IF bytes[k] = CR /\ k < Len(bytes) /\ bytes[k + 1] = LF
                              THEN k + 1 ELSE k
                  IN  <<SubSeq(bytes, 1, k - 1)>>
                      \o splitlines(SubSeq(bytes, skip + 1, Len(bytes)))

\* (\d+): the digits a sequence starts with
RECURSIVE leading_digits(_)
leading_digits(bytes) ==
    IF bytes # <<>> /\ IsDigit(Head(bytes))
    THEN <<Head(bytes)>> \o leading_digits(Tail(bytes))
    ELSE <<>>

\* re.match(rb"Content-Length: (\d+)", line): group 1, or <<>> for no match
match(line) ==
    IF line # <<>> /\ Head(line) = LengthName THEN leading_digits(Tail(line)) ELSE <<>>

\* get_content_length on header bytes: the first matching line's number, or
\* None for HeaderError
RECURSIVE first_length(_)
first_length(lines) ==
    IF lines = <<>> THEN None
    ELSE IF match(Head(lines)) # <<>> THEN int(match(Head(lines)))
         ELSE first_length(Tail(lines))

get_content_length_bytes(header) == first_length(splitlines(header))

\* the bodies of up to MaxLen bytes
BodyBytes == {"x", LF}
Bodies == UNION {[1..n -> BodyBytes] : n \in 0..MaxLen}

\* header blocks in which no line matches the pattern
NoLengthBlocks ==
    {<<>>,
     <<"Content-Type: ", "x", CR, LF>>,
     <<"content-length: ", "3", CR, LF>>,
     <<"x", LengthName, "3", CR, LF>>,
     <<LengthName, CR, LF>>,
     <<LengthName, "x", "3", CR, LF, "x", CR, LF>>}

\* the calls to make: wrap_rpc on a body and get_content_length on its
\* header, or get_content_length on a header block
FrameCalls ==
    {[fn |-> "wrap_rpc", kind |-> "content", arg |-> b, header |-> <<>>,
      out |-> <<>>, result |-> None] : b \in Bodies}
    \cup {[fn |-> "get_content_length", kind |-> "header", arg |-> h, header |-> h,
           out |-> <<>>, result |-> None] : h \in NoLengthBlocks}

WrapRpc ==
    /\ call.fn = "wrap_rpc"
    /\ call' = [call EXCEPT !.fn = "get_content_length",
                            !.header = wrap_rpc_header(call.arg),
                            !.out = wrap_rpc_bytes(call.arg)]
    /\ UNCHANGED <<limits, sessionVars, transportVars, trackerVars, listenerVars, pc, arg, prev, req_id,
                   stale, sends, run_server_lock, written, pipe, wbuf, writes, stdout,
                   rd, reads>>

GetContentLength ==
    /\ call.fn = "get_content_length"
    /\ call' = [call EXCEPT !.fn = "return",
                            !.result = get_content_length_bytes(call.header)]
    /\ UNCHANGED <<limits, sessionVars, transportVars, trackerVars, listenerVars, pc, arg, prev, req_id,
                   stale, sends, run_server_lock, written, pipe, wbuf, writes, stdout,
                   rd, reads>>

InitFrame ==
    /\ Started
    /\ WritesIdle
    /\ ReadsIdle
    /\ stdout = NoStream
    /\ call \in FrameCalls
    /\ limits = [requests |-> 0, frames |-> 0, spawn |-> 1, writes |-> 0]

NextFrame ==
    \/ WrapRpc
    \/ GetContentLength

SpecFrame == InitFrame /\ [][NextFrame]_vars

\* ------------------------------------------------- RPCMessage, json
\* Python values as json handles them; a str is a sequence of units, a unit
\* being a run of plain characters or one character that json escapes
PyNone == [t |-> "None"]
PyBool(b) == [t |-> "bool", bool |-> b]
PyInt(n) == [t |-> "int", int |-> n]
PyStr(units) == [t |-> "str", str |-> units]
PyList(items) == [t |-> "list", list |-> items]
\* a dict is its items in insertion order
PyDict(items) == [t |-> "dict", dict |-> items]
Item(key, value) == [key |-> key, value |-> value]
Raise(exception) == [t |-> "raise", raise |-> exception]
IsRaise(v) == v.t = "raise"

QUOTE == "\""
BACKSLASH == "\\"
SP == " "
EACUTE == "U+00E9"

\* bool(value) in `if error:`
truthy(value) ==
    CASE value.t = "None" -> FALSE
      [] value.t = "bool" -> value.bool
      [] value.t = "int" -> value.int # 0
      [] value.t = "str" -> Len(value.str) > 0
      [] value.t = "list" -> Len(value.list) > 0
      [] value.t = "dict" -> Len(value.dict) > 0

\* d[key] = value: the value replaced in place, or a new item at the end
dict_set(items, key, value) ==
    IF \E i \in 1..Len(items) : items[i].key = key
    THEN [i \in 1..Len(items) |->
             IF items[i].key = key THEN Item(key, value) ELSE items[i]]
    ELSE Append(items, Item(key, value))

\* d.get(key)
dict_get(items, key) ==
    IF \E i \in 1..Len(items) : items[i].key = key
    THEN items[CHOOSE i \in 1..Len(items) : items[i].key = key].value
    ELSE PyNone

\* a json encoder that writes every character of a str as it is
escape_nothing(unit) == <<unit>>

\* json.dumps, ensure_ascii: the text of one unit of a str
escape(unit) ==
    CASE unit = QUOTE -> <<BACKSLASH, QUOTE>>
      [] unit = BACKSLASH -> <<BACKSLASH, BACKSLASH>>
      [] unit = LF -> <<BACKSLASH, "n">>
      [] unit = EACUTE -> <<BACKSLASH, "u00e9">>
      [] OTHER -> <<unit>>

RECURSIVE encode_str(_)
encode_str(units) ==
    IF units = <<>> THEN <<>> ELSE escape(Head(units)) \o encode_str(Tail(units))

\* json.dumps with the default separators ", " and ": "
RECURSIVE json_dumps(_)
RECURSIVE dumps_items(_)
RECURSIVE dumps_members(_)
dumps_items(items) ==
    IF items = <<>> THEN <<>>
    ELSE json_dumps(Head(items))
         \o (IF Len(items) > 1 THEN <<",", SP>> ELSE <<>>)
         \o dumps_items(Tail(items))
dumps_members(items) ==
    IF items = <<>> THEN <<>>
    ELSE <<QUOTE>> \o encode_str(Head(items).key) \o <<QUOTE, ":", SP>>
         \o json_dumps(Head(items).value)
         \o (IF Len(items) > 1 THEN <<",", SP>> ELSE <<>>)
         \o dumps_members(Tail(items))
json_dumps(value) ==
    CASE value.t = "None" -> <<"null">>
      [] value.t = "bool" -> IF value.bool THEN <<"true">> ELSE <<"false">>
      [] value.t = "int" ->
            IF value.int < 0 THEN <<"-">> \o format_d(0 - value.int)
            ELSE format_d(value.int)
      [] value.t = "str" -> <<QUOTE>> \o encode_str(value.str) \o <<QUOTE>>
      [] value.t = "list" -> <<"[">> \o dumps_items(value.list) \o <<"]">>
      [] value.t = "dict" -> <<"{">> \o dumps_members(value.dict) \o <<"}">>

\* the json scanner: a value and the index after it, or no value
Fail == [ok |-> FALSE, value |-> PyNone, next |-> 0]
Ok(value, next) == [ok |-> TRUE, value |-> value, next |-> next]
Whitespace == {SP, CR, LF, "\t"}

RECURSIVE skip_ws(_, _)
skip_ws(s, i) == IF i <= Len(s) /\ s[i] \in Whitespace THEN skip_ws(s, i + 1) ELSE i

\* the character an escape sequence stands for
unescape(c) ==
    CASE c = QUOTE -> QUOTE
      [] c = BACKSLASH -> BACKSLASH
      [] c = "n" -> LF
      [] c = "u00e9" -> EACUTE
Escapes == {QUOTE, BACKSLASH, "n", "u00e9"}

\* a str from the character after its opening quote
RECURSIVE scan_string(_, _, _)
scan_string(s, i, units) ==
    IF i > Len(s) THEN Fail
    ELSE IF s[i] = QUOTE THEN Ok(units, i + 1)
    ELSE IF s[i] = BACKSLASH
         THEN IF i < Len(s) /\ s[i + 1] \in Escapes
              THEN scan_string(s, i + 2, Append(units, unescape(s[i + 1])))
              ELSE Fail
    ELSE IF s[i] \in {LF, CR, "\t"} THEN Fail
    ELSE scan_string(s, i + 1, Append(units, s[i]))

\* an int: "-"? then 0 or digits that do not start with 0
scan_number(s, i) ==
    LET from == IF s[i] = "-" THEN i + 1 ELSE i
        rest == IF from <= Len(s) THEN SubSeq(s, from, Len(s)) ELSE <<>>
        digits == IF rest # <<>> /\ Head(rest) = "0" THEN <<"0">> ELSE leading_digits(rest)
    IN  IF digits = <<>> THEN Fail
        ELSE Ok(PyInt(IF from > i THEN 0 - int(digits) ELSE int(digits)),
                from + Len(digits))

RECURSIVE scan_once(_, _)
RECURSIVE scan_array(_, _, _)
RECURSIVE scan_object(_, _, _)
scan_once(s, i) ==
    IF i > Len(s) THEN Fail
    ELSE CASE s[i] = QUOTE ->
                 LET r == scan_string(s, i + 1, <<>>)
                 IN  IF r.ok THEN Ok(PyStr(r.value), r.next) ELSE Fail
           [] s[i] = "{" -> scan_object(s, skip_ws(s, i + 1), <<>>)
           [] s[i] = "[" -> scan_array(s, skip_ws(s, i + 1), <<>>)
           [] s[i] = "null" -> Ok(PyNone, i + 1)
           [] s[i] = "true" -> Ok(PyBool(TRUE), i + 1)
           [] s[i] = "false" -> Ok(PyBool(FALSE), i + 1)
           [] s[i] = "-" \/ IsDigit(s[i]) -> scan_number(s, i)
           [] OTHER -> Fail
scan_array(s, i, items) ==
    IF items = <<>> /\ i <= Len(s) /\ s[i] = "]" THEN Ok(PyList(<<>>), i + 1)
    ELSE LET r == scan_once(s, i)
             j == skip_ws(s, r.next)
         IN  IF ~r.ok \/ j > Len(s) THEN Fail
             ELSE IF s[j] = "]" THEN Ok(PyList(Append(items, r.value)), j + 1)
             ELSE IF s[j] = "," THEN scan_array(s, skip_ws(s, j + 1), Append(items, r.value))
             ELSE Fail
scan_object(s, i, items) ==
    IF items = <<>> /\ i <= Len(s) /\ s[i] = "}" THEN Ok(PyDict(<<>>), i + 1)
    ELSE IF i > Len(s) \/ s[i] # QUOTE THEN Fail
    ELSE LET key == scan_string(s, i + 1, <<>>)
             colon == skip_ws(s, key.next)
         IN  IF ~key.ok \/ colon > Len(s) \/ s[colon] # ":" THEN Fail
             ELSE LET r == scan_once(s, skip_ws(s, colon + 1))
                      j == skip_ws(s, r.next)
                      set == dict_set(items, key.value, r.value)
                  IN  IF ~r.ok \/ j > Len(s) THEN Fail
                      ELSE IF s[j] = "}" THEN Ok(PyDict(set), j + 1)
                      ELSE IF s[j] = "," THEN scan_object(s, skip_ws(s, j + 1), set)
                      ELSE Fail

\* json.loads: one value with nothing but whitespace around it
json_loads(s) ==
    LET r == scan_once(s, skip_ws(s, 1))
    IN  IF r.ok /\ skip_ws(s, r.next) > Len(s) THEN r.value
        ELSE Raise("JSONDecodeError")

\* RPCMessage.request, RPCMessage.notification
RPCMessage_request(id, method, params) ==
    PyDict(<<Item(<<"id">>, id), Item(<<"method">>, method), Item(<<"params">>, params)>>)
RPCMessage_notification(method, params) ==
    PyDict(<<Item(<<"method">>, method), Item(<<"params">>, params)>>)

\* a response with both members whenever an error is given
RPCMessage_response_both(id, result, error) ==
    IF error # PyNone
    THEN PyDict(<<Item(<<"id">>, id), Item(<<"result">>, result), Item(<<"error">>, error)>>)
    ELSE PyDict(<<Item(<<"id">>, id), Item(<<"result">>, result)>>)

\* RPCMessage.response
RPCMessage_response(id, result, error) ==
    IF truthy(error)
    THEN PyDict(<<Item(<<"id">>, id), Item(<<"error">>, error)>>)
    ELSE PyDict(<<Item(<<"id">>, id), Item(<<"result">>, result)>>)

\* RPCMessage.dumps: self["jsonrpc"] = "2.0", then json.dumps(self)
Version == PyStr(<<"2.0">>)
with_jsonrpc(m) == PyDict(dict_set(m.dict, <<"jsonrpc">>, Version))
RPCMessage_dumps(m) == json_dumps(with_jsonrpc(m))

\* a load that does not look at the version member
RPCMessage_load_any_version(data) ==
    LET loaded == json_loads(data)
    IN  IF IsRaise(loaded) THEN loaded
        ELSE IF loaded.t # "dict" THEN Raise("AttributeError")
        ELSE loaded

\* RPCMessage.load: the message, or the exception raised
\* (loaded.get on a value that is no dict is an AttributeError)
RPCMessage_load(data) ==
    LET loaded == json_loads(data)
    IN  IF IsRaise(loaded) THEN loaded
        ELSE IF loaded.t # "dict" THEN Raise("AttributeError")
        ELSE IF dict_get(loaded.dict, <<"jsonrpc">>) # Version THEN Raise("ValueError")
        ELSE loaded

\* Client.handle_message on a loaded message: `if method:`, `id is None`
handle_message_of(message) ==
    LET id == dict_get(message.dict, <<"id">>)
        method == dict_get(message.dict, <<"method">>)
    IN  IF truthy(method)
        THEN IF id = PyNone THEN "notification" ELSE "request"
        ELSE IF id # PyNone THEN "response" ELSE "invalid"

\* the arguments the calls are made with
CodecIds == {PyInt(1), PyInt(12), PyStr(<<"a">>)}
CodecMethods == {PyStr(<<"textDocument/hover">>), PyStr(<<"$/cancelRequest">>)}
Values ==
    {PyNone, PyBool(FALSE), PyInt(0), PyStr(<<>>), PyDict(<<>>),
     PyDict(<<Item(<<"id">>, PyInt(1))>>),
     PyList(<<PyInt(0 - 12), PyStr(<<"a", QUOTE, BACKSLASH, LF, EACUTE, "null">>), PyBool(TRUE)>>),
     PyDict(<<Item(<<"k", QUOTE>>, PyDict(<<Item(<<"jsonrpc">>, PyNone)>>)),
              Item(<<"items">>, PyList(<<PyList(<<>>), PyInt(105)>>))>>)}
Errors ==
    {PyNone, PyDict(<<>>),
     PyDict(<<Item(<<"message">>, PyStr(<<"method not found ", "'", "m", "'">>)),
              Item(<<"code">>, PyInt(1))>>)}

\* what the call works on before anything is computed
NoMessage == PyNone
NoData == <<>>

CodecCall(fn, kind, args, data, defect) ==
    [fn |-> fn, kind |-> kind, args |-> args, m |-> NoMessage, data |-> data,
     defect |-> defect, loaded |-> NoMessage, handled |-> ""]

\* messages built by the client's constructors
MessageCalls ==
    {CodecCall("construct", "request", <<id, method, params>>, NoData, "") :
        id \in {PyInt(1), PyInt(12)}, method \in CodecMethods, params \in Values}
    \cup {CodecCall("construct", "notification", <<method, params>>, NoData, "") :
        method \in CodecMethods, params \in Values}
    \cup {CodecCall("construct", "response", <<id, result, error>>, NoData, "") :
        id \in CodecIds, result \in Values, error \in Errors}

\* envelopes the server sends, without the version member
Envelopes ==
    {RPCMessage_request(PyInt(1), PyStr(<<"workspace/configuration">>), PyDict(<<>>)),
     RPCMessage_notification(PyStr(<<"window/logMessage">>), PyNone),
     RPCMessage_response(PyInt(1), PyList(<<>>), PyNone),
     RPCMessage_response(PyInt(1), PyNone, PyDict(<<Item(<<"code">>, PyInt(1))>>)),
     PyDict(<<>>)}
NotVersion == {PyStr(<<"1.0">>), PyStr(<<"2">>), PyStr(<<"2.0", SP>>), PyInt(2), PyNone}
NotMessages == {PyList(<<>>), PyInt(1), PyNone, Version}

\* the bodies read() hands to load, each with what is wrong with it
InboundCalls ==
    {CodecCall("load", "text", <<>>, RPCMessage_dumps(m), "") : m \in Envelopes}
    \cup {CodecCall("load", "text", <<>>, <<SP>> \o RPCMessage_dumps(m) \o <<CR, LF>>, "") :
            m \in Envelopes}
    \cup {CodecCall("load", "text", <<>>, json_dumps(m), "missing") : m \in Envelopes}
    \cup {CodecCall("load", "text", <<>>,
                    json_dumps(PyDict(dict_set(m.dict, <<"jsonrpc">>, v))), "differs") :
            m \in Envelopes, v \in NotVersion}
    \cup {CodecCall("load", "text", <<>>, json_dumps(v), "missing") : v \in NotMessages}
    \cup {CodecCall("load", "text", <<>>, SubSeq(RPCMessage_dumps(m), 1, n), "undecodable") :
            m \in Envelopes, n \in 0..5}
    \cup {CodecCall("load", "text", <<>>, RPCMessage_dumps(m) \o extra, "undecodable") :
            m \in Envelopes, extra \in {<<"x">>, <<"}">>, <<"{", "}">>}}
    \cup {CodecCall("load", "text", <<>>, data, "undecodable") :
            data \in {<<"{", "'", "jsonrpc", "'", ":", SP, "'", "2.0", "'", "}">>,
                      <<"{", QUOTE, "jsonrpc", QUOTE, ":", SP, QUOTE, "2.0", QUOTE, ",", "}">>,
                      <<"{", QUOTE, "jsonrpc", QUOTE, SP, QUOTE, "2.0", QUOTE, "}">>,
                      <<"{", QUOTE, "jsonrpc", QUOTE, ":", SP, "0", "2", "}">>,
                      <<"{", QUOTE, "jsonrpc", QUOTE, ":", SP, QUOTE, "2.0", LF, QUOTE, "}">>,
                      <<"Content-Length: ", "2">>}}

\* RPCMessage.request / notification / response
Construct ==
    /\ call.fn = "construct"
    /\ call' = [call EXCEPT
                  !.fn = "dumps",
                  !.m = CASE call.kind = "request" ->
                               RPCMessage_request(call.args[1], call.args[2], call.args[3])
                          [] call.kind = "notification" ->
                               RPCMessage_notification(call.args[1], call.args[2])
                          [] call.kind = "response" ->
                               RPCMessage_response(call.args[1], call.args[2], call.args[3])]
    /\ UNCHANGED <<limits, sessionVars, transportVars, trackerVars, listenerVars, pc, arg, prev, req_id,
                   stale, sends, run_server_lock, written, pipe, wbuf, writes, stdout,
                   rd, reads>>

\* m.dumps(): m gets the version member, the text is returned
Dumps ==
    /\ call.fn = "dumps"
    /\ call' = [call EXCEPT !.fn = "load",
                            !.m = with_jsonrpc(call.m),
                            !.data = RPCMessage_dumps(call.m)]
    /\ UNCHANGED <<limits, sessionVars, transportVars, trackerVars, listenerVars, pc, arg, prev, req_id,
                   stale, sends, run_server_lock, written, pipe, wbuf, writes, stdout,
                   rd, reads>>

\* RPCMessage.load(data)
Load ==
    /\ call.fn = "load"
    /\ call' = [call EXCEPT !.fn = "loaded", !.loaded = RPCMessage_load(call.data)]
    /\ UNCHANGED <<limits, sessionVars, transportVars, trackerVars, listenerVars, pc, arg, prev, req_id,
                   stale, sends, run_server_lock, written, pipe, wbuf, writes, stdout,
                   rd, reads>>

\* listen_func after load: an exception leaves listen_func, a message goes
\* to handle_message
HandleMessage ==
    /\ call.fn = "loaded"
    /\ call.kind = "text"
    /\ call' = [call EXCEPT
                  !.fn = "return",
                  !.handled = IF IsRaise(call.loaded) THEN ""
                              ELSE handle_message_of(call.loaded)]
    /\ UNCHANGED <<limits, sessionVars, transportVars, trackerVars, listenerVars, pc, arg, prev, req_id,
                   stale, sends, run_server_lock, written, pipe, wbuf, writes, stdout,
                   rd, reads>>

InitCodec ==
    /\ Started
    /\ WritesIdle
    /\ ReadsIdle
    /\ stdout = NoStream
    /\ call \in MessageCalls \cup InboundCalls
    /\ limits = [requests |-> 0, frames |-> 0, spawn |-> 1, writes |-> 0]

NextCodec ==
    \/ Construct
    \/ Dumps
    \/ Load
    \/ HandleMessage

SpecCodec == InitCodec /\ [][NextCodec]_vars

\* =============================================================== claims
\* the $/cancelRequest notifications among the frames written
IsCancelFrame(f) == f.kind = "notification" /\ f.method = CancelMethod
CancelFrames == SelectSeq(written, IsCancelFrame)

\* the handler calls made for responses
IsResponseCall(c) == c.path = "response"
ResponseCalls == SelectSeq(handler_calls, IsResponseCall)
Delivered(id) == \E k \in 1..Len(ResponseCalls) : ResponseCalls[k].id = id

AllIdle == \A t \in Callers : pc[t] = "idle"

\* C1: for each method at most one pending entry is not marked cancelled, in
\* every state reached by send_request calls and inbound responses.
C1_AtMostOneInFlight ==
    \A m \in Methods : Cardinality({i \in LiveIds : request_map[i] = m}) <= 1

\* the state after send_request("m", p1); send_request("m", p2) on an empty
\* tracker, with no response taken in between
TwoSendsOfOneMethod ==
    /\ sends = 2
    /\ AllIdle
    /\ request_count = 2
    /\ Pending = {1, 2}
    /\ request_map[1] = request_map[2]

\* C2: two send_request calls of one method on an empty tracker write exactly
\* one $/cancelRequest, carrying the first id, and leave the second id as the
\* only pending entry that is not cancelled.
C2_SecondSendSupersedesFirst ==
    TwoSendsOfOneMethod =>
        /\ Len(CancelFrames) = 1
        /\ CancelFrames[1].id = 1
        /\ LiveIds = {2}
        /\ canceled_request = {1}

C2_Witness ==
    /\ TwoSendsOfOneMethod
    /\ Len(written) = 3
    /\ written[3].kind = "request"
    /\ written[3].id = 2

\* C3: get_request(X) for a pending X marked cancelled raises Canceled and
\* removes X from request_map and from canceled_request; a second
\* get_request(X) raises KeyError.
C3_CancellationPrecedence ==
    [][\A l \in Listeners, f \in Frames :
          (/\ ListenResponse(l, f)
           /\ f.payload.id \in canceled_request
           /\ f.payload.id \in Pending)
          => /\ get_request(f.payload.id).raises = "Canceled"
             /\ f.payload.id \notin Pending'
             /\ f.payload.id \notin canceled_request'
             /\ get_request(f.payload.id)'.raises = "KeyError"
             /\ handler_calls' = handler_calls]_vars

\* id 1 was superseded, its late response was taken and nothing was delivered
C3_Witness ==
    /\ request_count = 2
    /\ Pending = {2}
    /\ canceled_request = {}
    /\ Len(CancelFrames) = 1
    /\ ~Delivered(1)

\* the method a request was sent with: that of its request frame, or of the
\* send_request call that has recorded the id and not yet written the frame
SentWith(id, method) ==
    \/ \E k \in 1..Len(written) :
          /\ written[k].kind = "request"
          /\ written[k].id = id
          /\ written[k].method = method
    \/ \E t \in Callers :
          /\ pc[t] \in {"sr_count", "sr_write"}
          /\ arg[t] = method
          /\ req_id[t] = id

\* C4: a response whose id is pending and not cancelled is delivered to the
\* handler exactly once, under the method of its request, and the delivery
\* removes the entry; a later response with that id is not delivered; after
\* one request and its response the tracker is empty.
C4_DeliveredOnce ==
    /\ [](/\ \A j, k \in 1..Len(ResponseCalls) :
               ResponseCalls[j].id = ResponseCalls[k].id => j = k
          /\ \A k \in 1..Len(ResponseCalls) :
               /\ ResponseCalls[k].id \notin Pending
               /\ SentWith(ResponseCalls[k].id, ResponseCalls[k].method)
          /\ (sends = 1 /\ Delivered(1)) => Pending = {})
    /\ [][\A l \in Listeners, f \in Frames :
            ListenResponse(l, f) =>
               IF f.payload.id \in LiveIds
               THEN /\ handler_calls' =
                         Append(handler_calls,
                                HandlerCall("response", request_map[f.payload.id],
                                            f.payload.id))
                    /\ f.payload.id \notin Pending'
               ELSE handler_calls' = handler_calls]_vars

\* one request was sent, its response was delivered and a second frame was read
C4_Witness ==
    /\ sends = 1
    /\ AllIdle
    /\ Delivered(1)
    /\ Pending = {}
    /\ frames_read = 2
    /\ Len(handler_calls) = 1

\* C5: a response whose id is unknown or marked cancelled is dropped: no
\* handler call, no frame written, and the read loop and the child stay alive.
C5_StaleResponseDropped ==
    [][\A l \in Listeners, f \in Frames :
          (ListenResponse(l, f) /\ f.payload.id \notin LiveIds)
          => /\ handler_calls' = handler_calls
             /\ written' = written
             /\ lpc'[l] = "read"
             /\ process' = process
             /\ live' = live
             /\ run_event' = run_event]_vars

\* the response of the superseded request 1 was read and dropped, and the
\* loop goes on reading from the running child
C5_Witness ==
    /\ request_count = 2
    /\ Pending = {2}
    /\ canceled_request = {}
    /\ frames_read = 1
    /\ handler_calls = <<>>
    /\ is_running
    /\ \E l \in Listeners : lpc[l] = "read"

\* send_request calls that have not yet gone through add_request
BeforeAdd == {t \in Callers : pc[t] \in {"sr_cancel", "sr_notify", "sr_add", "sr_add2"}}

\* C6: add_request calls from concurrent callers allocate 1, 2, 3, ... in
\* allocation order, without gap or repeat, and an id is never used again,
\* also after its entry was taken.
C6_IdMonotonicity ==
    /\ [](/\ Pending \subseteq 1..request_count
          /\ request_count = sends - Cardinality(BeforeAdd))
    /\ [][/\ request_count' >= request_count
          /\ \A t \in Callers :
                AddRequestStore(t) =>
                   /\ request_count' = request_count + 1
                   /\ request_count' \notin Pending
                   /\ Pending' = Pending \cup {request_count'}
                   /\ request_map'[request_count'] = arg[t]]_vars

\* two callers are in add_request at once, after the entry of id 1 was taken
C6_Witness ==
    /\ pc["t1"] = "sr_add2"
    /\ pc["t2"] = "sr_add"
    /\ request_count = 1
    /\ Pending = {}

\* the session is terminated: no process handle, gate closed, empty tracker
SessionTerminated ==
    /\ process = None
    /\ ~run_event
    /\ Pending = {}
    /\ canceled_request = {}

\* C7: when read() raises EOFError the read loop exits and the session is
\* terminated (transport terminated, request tracker reset).
C7_EofTerminatesSession ==
    [][\A l \in Listeners :
          (lpc[l] = "recv" /\ lpc'[l] = "eof") => SessionTerminated']_vars

\* a header block without a usable Content-Length, or a body cut short
FramingError(frame) == Len(frame.header) > 0 /\ read(frame) # ""

\* C8: every framing error the read loop meets makes it terminate the
\* session and stop reading.
C8_FramingErrorFatal ==
    [][\A l \in Listeners, f \in Frames :
          (ListenError(l, f) /\ FramingError(f)) => lpc'[l] = "tm_clear"]_vars

\* C9: while a process runs, no pending entry was recorded for an earlier
\* process: the tracker was emptied when that process was terminated or
\* replaced.
C9_NoStaleEntries ==
    is_running => \A i \in Pending : born[i] \in {None, process}

\* a step in which a read() or a write() call gets to its stream
StreamIO ==
    \/ Len(written') > Len(written)
    \/ \E l \in Listeners : lpc[l] \in {"read", "respond"} /\ lpc'[l] # lpc[l]
    \/ \E t \in Callers : pc[t] \in {"sr_notify", "sr_write"} /\ pc'[t] # pc[t]

WriteStep == Len(written') > Len(written)

\* a step in which read() takes a frame from self.stdout
ReadStep == frames_read' # frames_read

Transport == [process |-> process, run_event |-> run_event, live |-> live]

\* Idle or terminated: no process handle, gate closed
NotStarted == process = None /\ ~run_event

\* C12: terminate() is idempotent: on a transport that is idle or already
\* terminated it changes nothing, a second terminate() leaves what the first
\* left, and after terminate() there is no process handle and the gate is
\* closed.
C12_TerminateIdempotent ==
    /\ [](/\ terminate(terminate(Transport)) = terminate(Transport)
          /\ NotStarted => terminate(Transport) = Transport)
    /\ [][\A t \in Main :
            /\ (TerminateServer(t) /\ NotStarted) => Transport' = Transport
            /\ TerminateServerKill(t) =>
                  /\ Transport' = terminate(Transport)
                  /\ process' = None /\ ~run_event'
                  /\ NotStarted => Transport' = Transport]_vars

\* terminate() is under way on a transport whose child was already killed by
\* an earlier terminate()
C12_Witness ==
    /\ pc["t1"] = "tm_kill"
    /\ spawned = 1
    /\ process = None
    /\ live = {}
    /\ ~run_event
    /\ \A l \in Listeners : lpc[l] \in {"unborn", "read"}

\* C13: the bytes of each frame arrive on the child's stdin in one piece:
\* between two bytes of one frame there is no byte of another frame.
C13_FramesContiguous ==
    \A i, j \in 1..Len(pipe) :
        (i < j /\ pipe[i].frame = pipe[j].frame)
        => \A k \in i..j : pipe[k].frame = pipe[i].frame

\* the read loops that have not exited and are not terminating the server
ReadLoops == {l \in Listeners : lpc[l] \in {"read", "recv", "respond"}}

\* C15: at most one read loop is alive at a time, and the loop that
\* run_server started for the l-th process reads from no later process.
C15_OneReadLoop ==
    /\ Cardinality(ReadLoops) <= 1
    /\ \A l \in Listeners : lproc[l] \in {None, l}

\* a step in which a read loop takes a frame and dispatches its message
Dispatch(l, f) ==
    \/ ListenNotification(l, f)
    \/ ListenResponse(l, f)
    \/ \E raised \in BOOLEAN : ListenRequest(l, f, raised)

\* C14: messages reach the handler in the order their frames arrive: a frame
\* is dispatched only when the handling of the frame before it is complete
\* (its response, if it was a request, is sent), and the handler call it
\* causes comes after every earlier call.
C14_ArrivalOrder ==
    [][\A l \in Listeners, f \in Frames :
          Dispatch(l, f) =>
             /\ \A k \in Listeners : lpc[k] # "respond"
             /\ \/ handler_calls' = handler_calls
                \/ /\ Len(handler_calls') = Len(handler_calls) + 1
                   /\ SubSeq(handler_calls', 1, Len(handler_calls)) = handler_calls
                   /\ handler_calls'[Len(handler_calls')].id = f.payload.id
                   /\ handler_calls'[Len(handler_calls')].path
                         = handle_message(f.payload)]_vars

\* a step in which handle_notification or handle_response calls the handler
HandlerStep(l, f) ==
    \/ ListenNotification(l, f) /\ handle_message(f.payload) = "notification"
    \/ ListenResponse(l, f) /\ f.payload.id \in LiveIds

\* C16: when the handler is called for a notification or a response, also
\* when it raises, the read loop goes on to the next read, no frame is
\* written and the transport is left as it is.
C16_HandlerExceptionSwallowed ==
    [][\A l \in Listeners, f \in Frames :
          HandlerStep(l, f) =>
             /\ lpc'[l] = "read"
             /\ written' = written
             /\ Transport' = Transport
             /\ lresp' = lresp]_vars

\* the handler raised on the response of request 1, its only call so far, and
\* the loop has since read a second frame and waits for a third
C16_Witness ==
    /\ "exception" \in logged
    /\ Len(handler_calls) = 1
    /\ handler_calls[1].path = "response"
    /\ frames_read = 2
    /\ is_running
    /\ \E l \in Listeners : lpc[l] = "recv"
    /\ \A k \in 1..Len(written) : written[k].kind # "response"

\* how many calls of the handler were made for server requests with this id
RequestCalls(id) ==
    Cardinality({k \in 1..Len(handler_calls) :
                    handler_calls[k].path = "request" /\ handler_calls[k].id = id})

\* how many response frames with this id were written
Responses(id) ==
    Cardinality({k \in 1..Len(written) :
                    written[k].kind = "response" /\ written[k].id = id})

\* how many read loops are about to send the response with this id
Responding(id) ==
    Cardinality({l \in Listeners : lpc[l] = "respond" /\ lresp[l].id = id})

\* C17: each server request gets exactly one response frame with its id,
\* carrying "result" when the handler returned and "error" when it raised,
\* and the read loop then goes on to the next read.
C17_OneResponsePerRequest ==
    /\ [](\A id \in Ids : Responses(id) + Responding(id) = RequestCalls(id))
    /\ [][\A l \in Listeners :
            /\ \A f \in Frames, raised \in BOOLEAN :
                  ListenRequest(l, f, raised) =>
                     /\ lpc'[l] = "respond"
                     /\ lresp'[l] = [id |-> f.payload.id, error |-> raised]
                     /\ written' = written
            /\ ListenRespond(l) =>
                  /\ Len(written') = Len(written) + 1
                  /\ written'[Len(written')].kind = "response"
                  /\ written'[Len(written')].id = lresp[l].id
                  /\ written'[Len(written')].member
                        = (IF lresp[l].error THEN "error" ELSE "result")
                  /\ written'[Len(written')].to = process
                  /\ lpc'[l] = "read"]_vars

\* the handler raised on a server request, the error response with the
\* request's id was written, and the loop waits for the next frame
C17_Witness ==
    /\ Len(handler_calls) = 1
    /\ handler_calls[1].path = "request"
    /\ Len(written) = 1
    /\ written[1].kind = "response"
    /\ written[1].member = "error"
    /\ written[1].id = handler_calls[1].id
    /\ \E l \in Listeners : lpc[l] = "recv"

\* a frame that read() returns and whose envelope RPCMessage.load rejects:
\* the "jsonrpc" member is missing or is not "2.0"
MalformedEnvelope(f) == read(f) = "" /\ load(f) = "ValueError"

\* C18: a frame with a malformed envelope, or one that names a method the
\* handler does not know, leaves the read loop running and the server
\* process alone; a request with an unknown method gets an error response.
C18_ProtocolErrorRecovered ==
    [][\A l \in Listeners, f \in Frames :
          /\ (ListenError(l, f) /\ MalformedEnvelope(f)) =>
                /\ lpc'[l] = "read"
                /\ Transport' = Transport
          /\ ListenRequest(l, f, TRUE) =>
                /\ lpc'[l] = "respond"
                /\ lresp'[l].error
                /\ Transport' = Transport]_vars

\* where the k-th frame of the stream ends
Offset(k) == Len(Concat(SubSeq(stdout.frames, 1, k)))

\* how many frames arrived whole before the stream closed
NumComplete ==
    Cardinality({k \in 1..Len(stdout.frames) : Offset(k) <= Len(stdout.bytes)})

\* C19: the k-th read() that returns gives exactly the body of the k-th
\* frame, however the stream splits it into chunks; every frame that arrived
\* whole is returned; and a read() stops at the end of its frame, so the next
\* one starts at the first byte of the next frame.
C19_ReadReturnsBody ==
    /\ \A k \in 1..Len(reads) :
          /\ reads[k].raises = "" =>
                /\ k <= Len(stdout.frames)
                /\ reads[k].content = stdout.frames[k].body
          /\ k <= NumComplete => reads[k].raises = ""
    /\ (rd.phase = "idle" /\ Len(reads) <= NumComplete)
          => rd.pos = 1 + Offset(Len(reads))
    /\ (rd.phase \in {"header", "content"} /\ Len(reads) < Len(stdout.frames))
          => rd.pos <= 1 + Offset(Len(reads) + 1)

\* two frames were returned, the first of them a body of two bytes that came
\* in two chunks
C19_Witness ==
    /\ Len(reads) = 2
    /\ reads[1].raises = ""
    /\ reads[2].raises = ""
    /\ Len(reads[1].content) = 2
    /\ reads[1].calls = 2
    /\ Len(reads[2].content) = 2

\* the stream closed between two frames
CutAtBoundary == Len(stdout.bytes) = Offset(NumComplete)

\* the stream closed after the blank line of a frame and before the end of
\* its body
CutInBody ==
    /\ NumComplete < Len(stdout.frames)
    /\ Len(stdout.bytes) >=
          Offset(NumComplete) + Len(stdout.frames[NumComplete + 1].header) + 1

\* C20: when the stream closes before any header line of the next frame, or
\* after fewer content bytes than the frame declares, read() raises
\* EOFError; a read() that returns gives as many bytes as the header declares.
C20_EndOfStream ==
    /\ (rd.phase = "raised" /\ (CutAtBoundary \/ CutInBody)) =>
          /\ Len(reads) = NumComplete + 1
          /\ reads[Len(reads)].raises = "EOFError"
    /\ \A k \in 1..Len(reads) :
          reads[k].raises = "" =>
             /\ k <= Len(stdout.frames)
             /\ Len(reads[k].content) = get_content_length(stdout.frames[k].header)

\* the first frame was returned, the stream closed after one of the two
\* content bytes of the second, and the second read() raised EOFError
C20_Witness ==
    /\ rd.phase = "raised"
    /\ Len(reads) = 2
    /\ reads[1].raises = ""
    /\ reads[2].raises = "EOFError"
    /\ rd.content_length = 2
    /\ Len(rd.temp_content) = 1

\* C21: for a body of n bytes wrap_rpc gives the bytes "Content-Length: ",
\* the decimal digits of n, "\r\n", a blank "\r\n" and then the n body
\* bytes, and get_content_length on that header gives n back; on a header
\* block with no Content-Length line get_content_length raises HeaderError.
C21_FramingRoundTrip ==
    /\ (call.fn \in {"get_content_length", "return"} /\ call.kind = "content") =>
          LET n == Len(call.arg)
              h == Len(call.header)
          IN  /\ h >= 4
              /\ call.header[1] = LengthName
              /\ \A i \in 2..(h - 2) : IsDigit(call.header[i])
              /\ call.header[h - 1] = CR /\ call.header[h] = LF
              /\ Len(call.out) = h + 2 + n
              /\ SubSeq(call.out, 1, h) = call.header
              /\ call.out[h + 1] = CR /\ call.out[h + 2] = LF
              /\ SubSeq(call.out, h + 3, h + 2 + n) = call.arg
    /\ (call.fn = "return" /\ call.kind = "content") => call.result = Len(call.arg)
    /\ (call.fn = "return" /\ call.kind = "header") => call.result = None

\* a body of ten bytes went through wrap_rpc and its header gave 10 back
C21_Witness ==
    /\ call.fn = "return"
    /\ call.kind = "content"
    /\ Len(call.arg) = 10
    /\ call.header = <<LengthName, "1", "0", CR, LF>>
    /\ call.result = 10

\* C22: for every message m built by RPCMessage.request, notification or
\* response (with result or with error), RPCMessage.load(m.dumps()) equals m
\* (m as dumps leaves it, with its version member).
C22_CodecRoundTrip ==
    (call.fn = "loaded" /\ call.kind # "text") =>
        /\ call.loaded = call.m
        /\ dict_get(call.m.dict, <<"jsonrpc">>) = Version

\* a request whose params hold a str with a quote, a backslash, a line feed
\* and a non-ASCII character came back from load as it was
C22_Witness ==
    /\ call.fn = "loaded"
    /\ call.kind = "request"
    /\ call.args[3].t = "list"
    /\ call.loaded = with_jsonrpc(RPCMessage_request(call.args[1], call.args[2], call.args[3]))
    /\ QUOTE \in {call.data[i] : i \in 1..Len(call.data)}

\* C23: RPCMessage.load raises for every body whose "jsonrpc" member is
\* missing or is not "2.0" (ValueError, or AttributeError when the body is
\* no JSON object) and for every body that is not JSON (JSONDecodeError);
\* listen_func never calls handle_message with such a body.
C23_MalformedRejected ==
    (call.kind = "text" /\ call.defect # "") =>
        /\ call.handled = ""
        /\ call.fn \in {"loaded", "return"} =>
              /\ IsRaise(call.loaded)
              /\ call.defect = "undecodable" => call.loaded = Raise("JSONDecodeError")
              /\ call.defect = "differs" => call.loaded = Raise("ValueError")
              /\ call.defect = "missing" =>
                    call.loaded \in {Raise("ValueError"), Raise("AttributeError")}

\* load raised ValueError for a response whose version member is not "2.0",
\* and listen_func ended without a call of handle_message
C23_Witness ==
    /\ call.kind = "text"
    /\ call.defect = "differs"
    /\ call.fn = "return"
    /\ call.loaded = Raise("ValueError")
    /\ call.handled = ""
    /\ \E i \in 1..Len(call.data) : call.data[i] = "result"

Keys(items) == {items[i].key : i \in 1..Len(items)}

\* C25: the text dumps() gives for a message is a JSON object with the member
\* "jsonrpc": "2.0"; for RPCMessage.response(id, result, error) it has the
\* id given and exactly one of "result" and "error", whatever result and
\* error are.
C25_VersionAndOneMember ==
    (call.kind # "text" /\ call.fn \in {"load", "loaded"}) =>
        LET frame == json_loads(call.data)
        IN  /\ frame.t = "dict"
            /\ dict_get(frame.dict, <<"jsonrpc">>) = Version
            /\ call.kind = "response" =>
                  /\ dict_get(frame.dict, <<"id">>) = call.args[1]
                  /\ Keys(frame.dict) \in {{<<"id">>, <<"jsonrpc">>, <<"result">>},
                                           {<<"id">>, <<"jsonrpc">>, <<"error">>}}

\* send_response was given a result and an error, and the text has the error
C25_Witness ==
    /\ call.kind = "response"
    /\ call.fn = "load"
    /\ call.args[2] # PyNone
    /\ truthy(call.args[3])
    /\ Keys(json_loads(call.data).dict) = {<<"id">>, <<"jsonrpc">>, <<"error">>}

\* well-formed bodies are loaded and dispatched
WellFormedHandled ==
    (call.kind = "text" /\ call.defect = "" /\ call.fn = "return") => call.handled # ""

\* the transport's states the claim names
NeverRun == spawned = 0
TerminateReturns == process # None /\ process' = None
ChildExits == process # None /\ process' = process /\ process \in live /\ process \notin live'
RunAgain == process = None /\ spawned > 0 /\ process' # None

\* C24: is_running() is false before the first run(), false when terminate()
\* has released the handle, false once the child of the handle has exited,
\* and true when run() on a terminated transport has spawned a process, which
\* is a new one; it is true only while a handle is held whose child is alive.
C24_IsRunning ==
    /\ [](NeverRun => ~is_running)
    /\ [](is_running => process \in live)
    /\ [][/\ TerminateReturns => ~is_running'
          /\ ChildExits => ~is_running'
          /\ RunAgain => (is_running' /\ process' \notin 1..spawned)]_vars

\* the second process runs, the first was terminated
C24_Witness ==
    /\ spawned = 2
    /\ process = 2
    /\ 1 \notin live
    /\ is_running

\* the thread writes the request frame of its send_request
WritesRequest(t) == pc[t] = "sr_write" /\ pc'[t] = "idle" /\ Len(written') > Len(written)

\* C26: a request frame whose id comes from a RequestManager that
\* terminate_server has replaced since is never written to the process a
\* later run_server spawned.
C26_NoStaleIdToNewProcess ==
    [][\A t \in Callers : WritesRequest(t) => ~stale[t]]_vars

\* the request with this id waits in write() and run() has just returned
WriteWaits(t, id) ==
    /\ pc[t] = "sr_write"
    /\ req_id[t] = id
    /\ \E r \in Restarter : pc[r] = "rs_listen"

\* the request frame with this id is on the stdin of the running process
OnStdin(id) ==
    /\ is_running
    /\ \E i \in 1..Len(written) :
          written[i].kind = "request" /\ written[i].id = id /\ written[i].to = process

TerminateIntervenes == \E r \in Restarter : pc[r] = "tm_kill"

\* C27: a write() that waits when run() returns gets its frame to the stdin
\* of the process run() spawned, unless a terminate() comes in between.
C27_BlockedWriteDelivered ==
    \A t \in Main : \A id \in 0..MaxStartRequests :
        WriteWaits(t, id) ~> (OnStdin(id) \/ TerminateIntervenes)

\* the request got its id before the first process was spawned, and its
\* frame is on that process's stdin as run_server is about to return
C27_Witness ==
    /\ spawned = 1
    /\ \E r \in Restarter : pc[r] = "rs_listen"
    /\ 1 \in Pending
    /\ born[1] = None
    /\ OnStdin(1)

\* the steps of send_request that call cancel_requests and send_notification
CancelStep(t) == pc[t] = "sr_cancel" /\ pc'[t] = "sr_notify"
NotifyStep(t) == pc[t] = "sr_notify" /\ pc'[t] # "sr_notify"
\* the step of the read loop that calls send_response
RespondStep(l) == lpc[l] = "respond" /\ lpc'[l] # "respond"
\* a step in which get_request(id) runs
GetRequestStep(id) ==
    \E l \in Listeners, f \in Frames : f.payload.id = id /\ ListenResponse(l, f)

\* C28: cancel_requests(id) adds id to canceled_request and changes neither
\* request_map nor request_count; an id that is pending and marked cancelled
\* leaves request_map only in a get_request for that id.
C28_CancelOnlyMarks ==
    [][/\ \A t \in Callers : CancelStep(t) =>
             /\ canceled_request' = canceled_request \cup {prev[t]}
             /\ request_map' = request_map
             /\ request_count' = request_count
       /\ \A id \in Pending \cap canceled_request :
             id \notin DOMAIN request_map' => GetRequestStep(id)]_vars

\* request 1 was marked cancelled next to a pending request of the other
\* method, and is still in request_map
C28_Witness ==
    /\ \E t \in Callers : pc[t] = "sr_notify" /\ prev[t] = 1
    /\ canceled_request = {1}
    /\ Pending = {1, 2}
    /\ request_map[1] # request_map[2]
    /\ request_count = 2

\* C29: send_request(M) marks as cancelled only a request of method M, and
\* the id in its $/cancelRequest is not that of a pending request of another
\* method, also when terminate_server resets the tracker while requests are
\* sent.
C29_OtherMethodsUntouched ==
    [][\A t \in Callers :
          /\ CancelStep(t) =>
                \A id \in (canceled_request' \ canceled_request) \cap Pending :
                    request_map[id] = arg[t]
          /\ (NotifyStep(t) /\ Len(written') > Len(written)) =>
                /\ IsCancelFrame(written'[Len(written')])
                /\ \A id \in Pending :
                      request_map[id] # arg[t] => written'[Len(written')].id # id]_vars

\* requests of both methods are pending, none is marked cancelled, no
\* $/cancelRequest was sent and both request frames are written
DistinctMethodsPending ==
    /\ Pending = {1, 2}
    /\ request_map[1] # request_map[2]
    /\ canceled_request = {}
    /\ Len(CancelFrames) = 0
    /\ Len(written) = 2
    /\ AllIdle

\* C30: send_notification and send_response leave request_map,
\* canceled_request and request_count as they are and put one frame on stdin.
C30_NotifyRespondFrame ==
    [][/\ \A t \in Callers : NotifyStep(t) =>
             /\ UNCHANGED <<request_map, canceled_request, request_count>>
             /\ Len(written') = Len(written) + 1
             /\ SubSeq(written', 1, Len(written)) = written
             /\ written'[Len(written')].kind = "notification"
       /\ \A l \in Listeners : RespondStep(l) =>
             /\ UNCHANGED <<request_map, canceled_request, request_count>>
             /\ Len(written') = Len(written) + 1
             /\ SubSeq(written', 1, Len(written)) = written
             /\ written'[Len(written')].kind = "response"
             /\ written'[Len(written')].id = lresp[l].id]_vars

\* a $/cancelRequest and a response were written while requests are pending
C30_Witness ==
    /\ Len(CancelFrames) = 1
    /\ \E k \in 1..Len(written) : written[k].kind = "response"
    /\ Pending = {1, 2}
    /\ canceled_request = {1}
    /\ request_count = 2

\* what the message carries
HasMethod(f) == f.payload.method # NoMethod
HasId(f) == f.payload.id # None
LastCall == handler_calls'[Len(handler_calls')]

\* C31: a message with a method and no id takes the notification path, with
\* a method and an id the request path, with an id and no method the response
\* path; for a message with neither the handler is not called, the tracker
\* and the frames written stay as they are, and the loop goes on to the next
\* read.
C31_DispatchClassification ==
    /\ [](\A m \in Messages :
            /\ handle_message(m) = "notification" <=> (m.method # NoMethod /\ m.id = None)
            /\ handle_message(m) = "request" <=> (m.method # NoMethod /\ m.id # None)
            /\ handle_message(m) = "response" <=> (m.method = NoMethod /\ m.id # None)
            /\ handle_message(m) = "invalid" <=> (m.method = NoMethod /\ m.id = None))
    /\ [][\A l \in Listeners, f \in Frames :
            /\ (ListenNotification(l, f) /\ HasMethod(f)) =>
                  /\ ~HasId(f)
                  /\ Len(handler_calls') = Len(handler_calls) + 1
                  /\ LastCall.path = "notification"
            /\ (ListenNotification(l, f) /\ ~HasMethod(f)) =>
                  /\ ~HasId(f)
                  /\ handler_calls' = handler_calls
                  /\ UNCHANGED <<request_map, canceled_request, request_count>>
                  /\ written' = written
                  /\ lpc'[l] = "read"
            /\ (\E raised \in BOOLEAN : ListenRequest(l, f, raised)) =>
                  /\ HasMethod(f) /\ HasId(f)
                  /\ LastCall.path = "request"
                  /\ LastCall.id = f.payload.id
            /\ ListenResponse(l, f) =>
                  /\ ~HasMethod(f) /\ HasId(f)
                  /\ Len(handler_calls') > Len(handler_calls) => LastCall.path = "response"]_vars

\* a message with neither method nor id was read while a request is pending:
\* no handler call, no frame beyond the request, the loop is back at the read
C31_Witness ==
    /\ "invalid" \in logged
    /\ frames_read = 1
    /\ handler_calls = <<>>
    /\ Pending = {1}
    /\ Len(written) = 1
    /\ \E l \in Listeners : lpc[l] = "read"

\* the request frames written since the last Popen()
RequestFrames == {i \in 1..Len(written) : written[i].kind = "request"}

\* C33: the id a send_request call puts into its request frame is the id
\* under which that call recorded its method, and no two request frames of a
\* session carry the same id.
C33_FrameCarriesRecordedId ==
    /\ [][\A t \in Callers : SendRequestCount(t) => req_id'[t] = req_id[t]]_vars
    /\ [](\A i, j \in RequestFrames : written[i].id = written[j].id => i = j)

\* the ids for which a $/cancelRequest frame was written since the last Popen()
CancelledOnWire == {written[i].id : i \in {k \in 1..Len(written) : written[k].method = CancelMethod}}

\* C34: within one session send_request does not send $/cancelRequest twice
\* for one id: the id it picks to cancel is a pending entry of the same
\* method that is not yet marked cancelled.
C34_CancelOncePerId ==
    [][\A t \in Callers :
          /\ (\E m \in Methods : SendRequest(t, m) /\ prev'[t] # None) =>
                /\ prev'[t] \in Pending
                /\ request_map[prev'[t]] = arg'[t]
                /\ prev'[t] \notin canceled_request
          /\ (SendRequestNotify(t) /\ written' # written) => prev[t] \notin CancelledOnWire]_vars

\* C36: whenever _run_event is set, _process is not None, whatever the
\* interleaving of run() and terminate() on different threads.
C36_GateImpliesHandle == run_event => process # None

\* C35: a write() that returns normally has written its frame to the stdin
\* pipe of a child: no interleaving with terminate() sends the frame into the
\* placeholder buffer.
C35_WriteReachesChild ==
    [][\A t \in Callers :
          (WriteStdin(t) /\ WriteOutcome # "BrokenPipeError") =>
              /\ Len(written') = Len(written) + 1
              /\ written'[Len(written')].to \in live]_vars

\* the transport was terminated and no call is under way
TransportTerminated == ~run_event /\ process = None /\ \A t \in Callers : pc[t] = "idle"
Exited(l) == lpc[l] \in {"eof", "failed"}

\* C37: the read loop ends when its session ends: once the transport is
\* terminated (and stays so) every started loop thread exits.
C37_LoopExits ==
    \A l \in Listeners :
        (TransportTerminated /\ lpc[l] # "unborn") ~> (Exited(l) \/ ~TransportTerminated)

\* C39: every id in canceled_request is a key of request_map, every key of
\* request_map lies between 1 and request_count, and get_request does not
\* raise KeyError for an id of the cancelled set.
C39_TrackerWellFormed ==
    /\ canceled_request \subseteq Pending
    /\ Pending \subseteq 1..request_count
    /\ \A id \in canceled_request : get_request(id).raises # "KeyError"

\* threads inside Session.run_server, past the Popen()
Spawning == {t \in Callers : pc[t] \in {"rs_set", "rs_listen"}}

\* C38: at most one child spawned through a session is alive: only one
\* thread at a time spawns, run() is not executed while an earlier child
\* still runs, and run() does not overwrite the handle of a live child.
C38_OneChildAlive ==
    /\ [](Cardinality(live) <= 1 /\ Cardinality(Spawning) <= 1)
    /\ [][\A t \in Callers : RunServer(t) => live = {}]_vars

\* the frames that reached the stdin of child p, in order
TextDocumentMethods == {HoverMethod, DidOpenMethod}
IsInitialized(f) == f.kind = "notification" /\ f.method = InitializedMethod

\* C32: no textDocument frame is written to a child before the 'initialized'
\* notification has been written to that child, also after terminate() and a
\* new start_server().
C32_InitializedFirst ==
    \A i \in 1..Len(written) :
        (written[i].to # None /\ written[i].method \in TextDocumentMethods) =>
            \E j \in 1..(i - 1) : IsInitialized(written[j]) /\ written[j].to = written[i].to

\* the initialize requests that are pending and not cancelled
InitializeInFlight == {i \in LiveIds : request_map[i] = InitializeMethod}

\* a step of the read loop that handles an initialize response
InitializeResponse(l, error) ==
    \E f \in Frames :
        /\ ClangdResponse(l, f, error)
        /\ get_request(f.payload.id).raises = ""
        /\ get_request(f.payload.id).method = InitializeMethod

\* C40: at most one initialize request is in flight; the status leaves
\* Initializing only where an initialize response without error is handled
\* (or in reset_session), and an initialize response with an error leaves the
\* status Initializing and the event unset.
C40_OneInitializeInFlight ==
    /\ [](Cardinality(InitializeInFlight) <= 1)
    /\ [][(inittialize_status = "Initializing" /\ inittialize_status' # "Initializing") =>
             \E l \in Listeners : HandleInitializeSet(l)]_vars
    /\ [][\A l \in Listeners :
             InitializeResponse(l, TRUE) =>
                 /\ inittialize_status' = inittialize_status
                 /\ initialize_event' = initialize_event
                 /\ lpc'[l] = "read"]_vars

====
